---- MODULE Spec2Model ----
(***************************************************************************)
(* Issue tracker back end: the issue hierarchy, the status guard, the      *)
(* story code allocator and the request handlers that use them.            *)
(*                                                                         *)
(* Conventions of the model                                                *)
(*   - a database id that is None in Python is 0 here;                     *)
(*   - a string is a TLA+ string, except story_pointer, project_prefix and *)
(*     Project.name, which are sequences of one-character strings so that  *)
(*     formatting, LIKE matching, split and int() are computed;            *)
(*   - a handler is an operator that returns the response and the database *)
(*     after commit (the database as it was when the handler raises: the   *)
(*     session is rolled back); the action applies it;                     *)
(*   - notifications go to an external sink and are not part of the state. *)
(***************************************************************************)
EXTENDS Naturals, Integers, Sequences, FiniteSets, Bags, TLC

VARIABLES
    users,          \* users table: id -> [email, _role, _view_mode]
    projects,       \* project table: id -> [name, project_prefix, owner_id, is_active]
    teams,          \* teams table: id -> [project_id, lead_id, members]
    stories,        \* user_story table: id -> row (only existing ids)
    next_story_id,  \* AUTO_INCREMENT of user_story.id
    activities,     \* user_story_activity rows, as a bag
    sessions,       \* per worker: the create_story request between scan and write
    mode_requests,  \* mode_switch_requests table: id -> [user_id, requested_mode, status]
    last            \* the response to the most recent request

vars == <<users, projects, teams, stories, next_story_id, activities, sessions, mode_requests, last>>

(***************************************************************************)
(* Bounds of the model.                                                    *)
(***************************************************************************)
MaxIssues == 3        \* issues created in the general specifications
MaxActivities == 4    \* activity rows written in the general specifications
DeepIssues == 52      \* issues created when building one long parent chain
MaxCodeIssues == 4    \* issues created in the allocator specifications

(***************************************************************************)
(* Program constants.                                                      *)
(***************************************************************************)
MaxDepth == 50        \* while ... and depth < 50
CodeWidth == 4        \* f"{next_num:04d}"

MASTER_EMAIL == "admin@jira.local"

EPIC == "Epic"
STORY == "Story"
TASK == "Task"
BUG == "Bug"
SUBTASK == "Subtask"
IssueType == {EPIC, STORY, TASK, BUG, SUBTASK}

ADMIN == "ADMIN"
DEVELOPER == "DEVELOPER"
TESTER == "TESTER"
MASTER_ADMIN == "MASTER_ADMIN"

DONE == "Done"
TODO == "TODO"

CREATED == "CREATED"
UPDATED == "UPDATED"

\* IssueType.valid_parents
valid_parents(t) ==
    CASE t = EPIC -> {}
      [] t = STORY -> {EPIC}
      [] t = TASK -> {STORY}
      [] t = SUBTASK -> {TASK}
      [] t = BUG -> {STORY, TASK}
      [] OTHER -> {}

(***************************************************************************)
(* Strings of characters.                                                  *)
(***************************************************************************)
\* str.lower() on the status values the model uses
lower(s) ==
    CASE s = "Done" -> "done"
      [] s = "DONE" -> "done"
      [] s = "done" -> "done"
      [] s = "TODO" -> "todo"
      [] OTHER -> s

\* str.upper() on one character
upper_char(c) ==
    CASE c = "a" -> "A"
      [] c = "b" -> "B"
      [] c = "c" -> "C"
      [] c = "d" -> "D"
      [] OTHER -> c

upper(s) == [i \in 1..Len(s) |-> upper_char(s[i])]

\* s[:n]
take(s, n) == SubSeq(s, 1, IF Len(s) < n THEN Len(s) ELSE n)

DigitChars == <<"0", "1", "2", "3", "4", "5", "6", "7", "8", "9">>

digit_value(c) == CHOOSE d \in 0..9 : DigitChars[d + 1] = c

is_digit(c) == \E d \in 0..9 : DigitChars[d + 1] = c

RECURSIVE decimal(_)
\* str(n) for n >= 0
decimal(n) == IF n < 10 THEN <<DigitChars[n + 1]>>
              ELSE decimal(n \div 10) \o <<DigitChars[(n % 10) + 1]>>

RECURSIVE zero_pad(_, _)
zero_pad(s, width) == IF Len(s) >= width THEN s ELSE zero_pad(<<"0">> \o s, width)

\* f"{n:04d}"
format_04d(n) == zero_pad(decimal(n), CodeWidth)

RECURSIVE last_segment(_)
\* val.split('-')[-1]
last_segment(s) ==
    IF s = <<>> THEN <<>>
    ELSE IF s[Len(s)] = "-" THEN <<>>
    ELSE last_segment(SubSeq(s, 1, Len(s) - 1)) \o <<s[Len(s)]>>

RECURSIVE digits_value(_)
digits_value(s) == IF s = <<>> THEN 0
                   ELSE 10 * digits_value(SubSeq(s, 1, Len(s) - 1)) + digit_value(s[Len(s)])

\* int(s): -1 stands for ValueError
parse_int(s) == IF s # <<>> /\ \A i \in 1..Len(s) : is_digit(s[i]) THEN digits_value(s) ELSE -1

\* story_pointer LIKE '<prefix>-%'
like_prefix(pointer, prefix) ==
    LET pat == prefix \o <<"-">>
    IN Len(pointer) >= Len(pat) /\ SubSeq(pointer, 1, Len(pat)) = pat

(***************************************************************************)
(* models/user.py                                                          *)
(***************************************************************************)
UserIds == DOMAIN users

is_master_admin(u) == users[u].email = MASTER_EMAIL

role(u) == IF users[u].email = MASTER_EMAIL THEN MASTER_ADMIN
           ELSE IF users[u]._role # "" THEN users[u]._role ELSE DEVELOPER

view_mode(u) == IF users[u].email = MASTER_EMAIL THEN ADMIN
                ELSE IF users[u]._view_mode # "" THEN users[u]._view_mode ELSE DEVELOPER

\* user.led_teams and user.teams
led_teams(u) == {t \in DOMAIN teams : teams[t].lead_id = u}
member_teams(u) == {t \in DOMAIN teams : u \in teams[t].members}

(***************************************************************************)
(* The issue relations of the user_story table.                            *)
(***************************************************************************)
\* story.children
children(S, id) == {c \in DOMAIN S : S[c].parent_issue_id = id}

RECURSIVE reaches(_, _, _, _)
\* following parent_issue_id from `from` for at most n hops arrives at `to`
reaches(S, from, to, n) ==
    IF n = 0 \/ from \notin DOMAIN S THEN FALSE
    ELSE LET p == S[from].parent_issue_id
         IN IF p = 0 THEN FALSE
            ELSE IF p = to THEN TRUE
            ELSE reaches(S, p, to, n - 1)

(***************************************************************************)
(* utils/story_validation.py                                               *)
(***************************************************************************)
Accepted(q) == [ok |-> TRUE, error |-> "", message |-> "", queried |-> q]
Rejected(e, m, q) == [ok |-> FALSE, error |-> e, message |-> m, queried |-> q]

INVALID_HIERARCHY == "InvalidHierarchy"
CIRCULAR_DEPENDENCY == "CircularDependency"

RECURSIVE ancestor_walk_short(_, _, _, _)
\* ancestor_walk that gives up one hop earlier
ancestor_walk_short(S, ancestor, depth, current_issue_id) ==
    IF ~(S[ancestor].parent_issue_id # 0 /\ depth < MaxDepth - 1) THEN FALSE
    ELSE IF S[ancestor].parent_issue_id = current_issue_id THEN TRUE
    ELSE IF S[ancestor].parent_issue_id \notin DOMAIN S THEN FALSE
    ELSE ancestor_walk_short(S, S[ancestor].parent_issue_id, depth + 1, current_issue_id)

RECURSIVE ancestor_walk(_, _, _, _)
\* the while loop of validate_hierarchy: TRUE when it raises circular dependency
ancestor_walk(S, ancestor, depth, current_issue_id) ==
    IF ~(S[ancestor].parent_issue_id # 0 /\ depth < MaxDepth) THEN FALSE
    ELSE IF S[ancestor].parent_issue_id = current_issue_id THEN TRUE
    ELSE IF S[ancestor].parent_issue_id \notin DOMAIN S THEN FALSE
    ELSE ancestor_walk(S, S[ancestor].parent_issue_id, depth + 1, current_issue_id)

RECURSIVE ancestor_walk_hops_late(_, _, _, _)
\* ancestor_walk_hops of a loop that gives up after twice as many hops
ancestor_walk_hops_late(S, ancestor, depth, current_issue_id) ==
    IF ~(S[ancestor].parent_issue_id # 0 /\ depth < 2 * MaxDepth) THEN depth
    ELSE IF S[ancestor].parent_issue_id = current_issue_id THEN depth
    ELSE IF S[ancestor].parent_issue_id \notin DOMAIN S THEN depth + 1
    ELSE ancestor_walk_hops_late(S, S[ancestor].parent_issue_id, depth + 1, current_issue_id)

RECURSIVE ancestor_walk_hops(_, _, _, _)
\* the while loop of validate_hierarchy: how often it ran ancestor = ancestor.parent
ancestor_walk_hops(S, ancestor, depth, current_issue_id) ==
    IF ~(S[ancestor].parent_issue_id # 0 /\ depth < MaxDepth) THEN depth
    ELSE IF S[ancestor].parent_issue_id = current_issue_id THEN depth
    ELSE IF S[ancestor].parent_issue_id \notin DOMAIN S THEN depth + 1
    ELSE ancestor_walk_hops(S, S[ancestor].parent_issue_id, depth + 1, current_issue_id)

\* check_parent_type with a Bug allowed under any valid parent type
check_parent_type_bug_anywhere(issue_type, parent_type) ==
    IF parent_type \notin IssueType
        THEN Rejected(INVALID_HIERARCHY, "Parent issue has invalid type", TRUE)
    ELSE IF issue_type = EPIC
        THEN Rejected(INVALID_HIERARCHY, "Epics cannot have a parent issue.", TRUE)
    ELSE IF issue_type = STORY /\ parent_type # EPIC
        THEN Rejected(INVALID_HIERARCHY, "Story must be a child of an Epic", TRUE)
    ELSE IF issue_type = TASK /\ parent_type # STORY
        THEN Rejected(INVALID_HIERARCHY, "Task must be a child of a Story", TRUE)
    ELSE IF issue_type = SUBTASK /\ parent_type # TASK
        THEN Rejected(INVALID_HIERARCHY, "Subtask must be a child of a Task", TRUE)
    ELSE Accepted(TRUE)

\* the type checks that close validate_hierarchy
check_parent_type(issue_type, parent_type) ==
    IF parent_type \notin IssueType
        THEN Rejected(INVALID_HIERARCHY, "Parent issue has invalid type", TRUE)
    ELSE IF issue_type = EPIC
        THEN Rejected(INVALID_HIERARCHY, "Epics cannot have a parent issue.", TRUE)
    ELSE IF issue_type = STORY /\ parent_type # EPIC
        THEN Rejected(INVALID_HIERARCHY, "Story must be a child of an Epic", TRUE)
    ELSE IF issue_type = TASK /\ parent_type # STORY
        THEN Rejected(INVALID_HIERARCHY, "Task must be a child of a Story", TRUE)
    ELSE IF issue_type = SUBTASK /\ parent_type # TASK
        THEN Rejected(INVALID_HIERARCHY, "Subtask must be a child of a Task", TRUE)
    ELSE IF issue_type = BUG /\ parent_type \notin {STORY, TASK}
        THEN Rejected(INVALID_HIERARCHY, "Bug must be a child of a Story or Task", TRUE)
    ELSE Accepted(TRUE)

\* check_no_parent that asks a parent of every type but Epic
check_no_parent_epic_only(issue_type) ==
    IF issue_type # EPIC
        THEN Rejected(INVALID_HIERARCHY, "Subtask must belong to a Task (parent_issue_id required).", FALSE)
        ELSE Accepted(FALSE)

\* validate_hierarchy when no parent id is given
check_no_parent(issue_type) ==
    IF issue_type = SUBTASK
        THEN Rejected(INVALID_HIERARCHY, "Subtask must belong to a Task (parent_issue_id required).", FALSE)
        ELSE Accepted(FALSE)

validate_hierarchy(S, parent_id, issue_type, current_issue_id) ==
    IF issue_type \notin IssueType
        THEN Rejected(INVALID_HIERARCHY, "Invalid issue type", FALSE)
    ELSE IF parent_id = 0 THEN check_no_parent(issue_type)
    ELSE IF parent_id \notin DOMAIN S
        THEN Rejected(INVALID_HIERARCHY, "Parent issue not found", TRUE)
    ELSE IF current_issue_id # 0 /\ parent_id = current_issue_id
        THEN Rejected(INVALID_HIERARCHY, "Cannot set issue as its own parent.", TRUE)
    ELSE IF current_issue_id # 0 /\ ancestor_walk(S, parent_id, 0, current_issue_id)
        THEN Rejected(CIRCULAR_DEPENDENCY, "Circular dependency detected.", TRUE)
    ELSE check_parent_type(issue_type, S[parent_id].issue_type)

\* the children that keep a story from Done
pending_children(S, id) == {c \in children(S, id) : lower(S[c].status) # lower(DONE)}

\* validate_status_transition that knows the spelling "Done" only
validate_status_transition_exact_case(S, id, new_status) ==
    IF new_status = "" \/ new_status = S[id].status THEN [ok |-> TRUE, pending |-> 0]
    ELSE IF new_status = DONE /\ pending_children(S, id) # {}
        THEN [ok |-> FALSE, pending |-> Cardinality(pending_children(S, id))]
    ELSE [ok |-> TRUE, pending |-> 0]

\* [ok, pending]: ok = FALSE when the guard raises, with the number of pending children
validate_status_transition(S, id, new_status) ==
    IF new_status = "" \/ new_status = S[id].status THEN [ok |-> TRUE, pending |-> 0]
    ELSE IF lower(new_status) = lower(DONE) /\ pending_children(S, id) # {}
        THEN [ok |-> FALSE, pending |-> Cardinality(pending_children(S, id))]
    ELSE [ok |-> TRUE, pending |-> 0]

(***************************************************************************)
(* utils/story_repo.py                                                     *)
(***************************************************************************)
\* the prefix get_next_story_code derives from the project
story_prefix(project) ==
    IF project.project_prefix # <<>> THEN project.project_prefix
    ELSE IF project.name # <<>> THEN upper(take(project.name, 2))
    ELSE <<"X", "X">>

\* the numbers the scan parses; an unparsable suffix is skipped
scanned_numbers(S, prefix) ==
    {parse_int(last_segment(S[i].story_pointer)) :
        i \in {j \in DOMAIN S : like_prefix(S[j].story_pointer, prefix) /\ S[j].story_pointer # <<>>}}
    \ {-1}

\* set_max that keeps the smallest number
set_max_keeps_smallest(ns) == IF ns = {} THEN 0 ELSE CHOOSE m \in ns : \A n \in ns : m <= n

set_max(ns) == IF ns = {} THEN 0 ELSE CHOOSE m \in ns : \A n \in ns : n <= m

\* next_number that counts the scanned identifiers instead of taking the largest
next_number_by_count(S, prefix) == Cardinality(scanned_numbers(S, prefix)) + 1

next_number(S, prefix) == set_max(scanned_numbers(S, prefix) \cup {0}) + 1

\* for a project that exists (the caller has fetched it)
get_next_story_code(S, P, project_id) ==
    LET prefix == story_prefix(P[project_id])
    IN prefix \o <<"-">> \o format_04d(next_number(S, prefix))

\* the activity row for a change: none for an update that changes nothing
\* the record _log_activity builds; change_lines counts the lines of `changes`,
\* which open with "Issue Created" for a CREATED action
activity_row(story_id, user_id, action, change_count) ==
    [story_id |-> story_id, user_id |-> user_id, action |-> action,
     change_count |-> change_count,
     change_lines |-> change_count + (IF action = CREATED THEN 1 ELSE 0)]

\* create_activity that keeps only the newest record
create_activity_replaces(A, story_id, user_id, action, change_count) ==
    IF change_count = 0 /\ action = UPDATED THEN A
    ELSE SetToBag({activity_row(story_id, user_id, action, change_count)})

\* create_activity that also records an update without changes
create_activity_logs_empty(A, story_id, user_id, action, change_count) ==
    A (+) SetToBag({activity_row(story_id, user_id, action, change_count)})

create_activity(A, story_id, user_id, action, change_count) ==
    IF change_count = 0 /\ action = UPDATED THEN A
    ELSE A (+) SetToBag({activity_row(story_id, user_id, action, change_count)})

(***************************************************************************)
(* auth/permissions.py                                                     *)
(***************************************************************************)
\* can_create_issue that looks at the given team only
can_create_issue_given_team(u, project_id, team_id) ==
    IF project_id \notin DOMAIN projects \/ ~projects[project_id].is_active THEN FALSE
    ELSE IF is_master_admin(u) THEN TRUE
    ELSE IF view_mode(u) = ADMIN THEN projects[project_id].owner_id = u
    ELSE IF projects[project_id].owner_id = u THEN FALSE
    ELSE team_id \in DOMAIN teams /\ teams[team_id].project_id = project_id
         /\ (teams[team_id].lead_id = u \/ u \in teams[team_id].members)

can_create_issue(u, project_id, team_id) ==
    IF project_id \notin DOMAIN projects \/ ~projects[project_id].is_active THEN FALSE
    ELSE IF is_master_admin(u) THEN TRUE
    ELSE IF view_mode(u) = ADMIN THEN projects[project_id].owner_id = u
    ELSE IF projects[project_id].owner_id = u THEN FALSE
    ELSE \E t \in DOMAIN teams :
            teams[t].project_id = project_id /\ (teams[t].lead_id = u \/ t \in member_teams(u))

\* can_update_issue that decides by the stored role where the code decides by view mode
can_update_issue_by_role(u, story) ==
    IF ~projects[story.project_id].is_active THEN FALSE
    ELSE IF is_master_admin(u) THEN TRUE
    ELSE IF role(u) = ADMIN THEN TRUE
    ELSE IF story.team_id # 0 /\ story.team_id \in DOMAIN teams
            /\ teams[story.team_id].lead_id = u
            /\ teams[story.team_id].project_id = story.project_id THEN TRUE
    ELSE story.assignee_id = u

\* can_update_issue that accepts the lead of any team of the issue's project
can_update_issue_any_team(u, story) ==
    IF ~projects[story.project_id].is_active THEN FALSE
    ELSE IF is_master_admin(u) THEN TRUE
    ELSE IF view_mode(u) = ADMIN THEN projects[story.project_id].owner_id = u
    ELSE IF projects[story.project_id].owner_id = u THEN FALSE
    ELSE IF \E t \in DOMAIN teams : teams[t].lead_id = u /\ teams[t].project_id = story.project_id
        THEN TRUE
    ELSE story.assignee_id = u

\* can_update_issue without the assignee rule
can_update_issue_no_assignee(u, story) ==
    IF ~projects[story.project_id].is_active THEN FALSE
    ELSE IF is_master_admin(u) THEN TRUE
    ELSE IF view_mode(u) = ADMIN THEN projects[story.project_id].owner_id = u
    ELSE IF projects[story.project_id].owner_id = u THEN FALSE
    ELSE story.team_id # 0 /\ story.team_id \in DOMAIN teams
         /\ teams[story.team_id].lead_id = u
         /\ teams[story.team_id].project_id = story.project_id

can_update_issue(u, story) ==
    IF ~projects[story.project_id].is_active THEN FALSE
    ELSE IF is_master_admin(u) THEN TRUE
    ELSE IF view_mode(u) = ADMIN THEN projects[story.project_id].owner_id = u
    ELSE IF projects[story.project_id].owner_id = u THEN FALSE
    ELSE IF story.team_id # 0 /\ story.team_id \in DOMAIN teams
            /\ teams[story.team_id].lead_id = u
            /\ teams[story.team_id].project_id = story.project_id THEN TRUE
    ELSE story.assignee_id = u

\* can_delete_issue that accepts the lead of any team of the issue's project
can_delete_issue_any_team(u, story) ==
    IF ~projects[story.project_id].is_active THEN FALSE
    ELSE IF is_master_admin(u) THEN TRUE
    ELSE IF view_mode(u) = ADMIN /\ projects[story.project_id].owner_id = u THEN TRUE
    ELSE \E t \in DOMAIN teams : teams[t].lead_id = u /\ teams[t].project_id = story.project_id

can_delete_issue(u, story) ==
    IF ~projects[story.project_id].is_active THEN FALSE
    ELSE IF is_master_admin(u) THEN TRUE
    ELSE IF view_mode(u) = ADMIN /\ projects[story.project_id].owner_id = u THEN TRUE
    ELSE story.team_id # 0 /\ story.team_id \in DOMAIN teams
         /\ teams[story.team_id].lead_id = u
         /\ teams[story.team_id].project_id = story.project_id

\* can_view_issue without the roster rule and the assigned-anywhere rule
can_view_issue_narrow(u, story, S) ==
    IF is_master_admin(u) THEN TRUE
    ELSE IF view_mode(u) = ADMIN THEN projects[story.project_id].owner_id = u
    ELSE IF projects[story.project_id].owner_id = u THEN FALSE
    ELSE IF \E t \in DOMAIN teams : teams[t].project_id = story.project_id /\ teams[t].lead_id = u
        THEN TRUE
    ELSE story.assignee_id = u

\* can_view_issue that refuses every stored role other than ADMIN and DEVELOPER
can_view_issue_developer_only(u, story, S) ==
    IF is_master_admin(u) THEN TRUE
    ELSE IF role(u) \notin {ADMIN, DEVELOPER} THEN FALSE
    ELSE IF view_mode(u) = ADMIN THEN projects[story.project_id].owner_id = u
    ELSE IF projects[story.project_id].owner_id = u THEN FALSE
    ELSE IF \E t \in DOMAIN teams : teams[t].project_id = story.project_id /\ teams[t].lead_id = u
        THEN TRUE
    ELSE IF story.team_id # 0 /\ story.team_id \in DOMAIN teams /\ u \in teams[story.team_id].members
        THEN TRUE
    ELSE IF story.assignee_id = u THEN TRUE
    ELSE \E i \in DOMAIN S : S[i].project_id = story.project_id /\ S[i].assignee_id = u

\* can_view_issue without the two rules for assignees
can_view_issue_no_assignee(u, story, S) ==
    IF is_master_admin(u) THEN TRUE
    ELSE IF view_mode(u) = ADMIN THEN projects[story.project_id].owner_id = u
    ELSE IF projects[story.project_id].owner_id = u THEN FALSE
    ELSE IF \E t \in DOMAIN teams : teams[t].project_id = story.project_id /\ teams[t].lead_id = u
        THEN TRUE
    ELSE story.team_id # 0 /\ story.team_id \in DOMAIN teams /\ u \in teams[story.team_id].members

\* S: the user_story rows the last query of can_view_issue counts
can_view_issue(u, story, S) ==
    IF is_master_admin(u) THEN TRUE
    ELSE IF view_mode(u) = ADMIN THEN projects[story.project_id].owner_id = u
    ELSE IF projects[story.project_id].owner_id = u THEN FALSE
    ELSE IF \E t \in DOMAIN teams : teams[t].project_id = story.project_id /\ teams[t].lead_id = u
        THEN TRUE
    ELSE IF story.team_id # 0 /\ story.team_id \in DOMAIN teams /\ u \in teams[story.team_id].members
        THEN TRUE
    ELSE IF story.assignee_id = u THEN TRUE
    ELSE \E i \in DOMAIN S : S[i].project_id = story.project_id /\ S[i].assignee_id = u

\* check_project_active that never raises
check_project_active_never_raises(project_is_active) == FALSE

\* utils/common.py: TRUE when check_project_active raises
check_project_active_raises(project_is_active) == ~project_is_active

(***************************************************************************)
(* utils/story_service.py and endpoints/v1/stories_api.py.                 *)
(* A handler returns [resp, stories, teams, activities, next_story_id].    *)
(***************************************************************************)
Response(status, reason, message, n, id) ==
    [status |-> status, reason |-> reason, message |-> message, n |-> n, id |-> id]

\* the handler raised: the session is rolled back
Raised(status, reason, message, n, id) ==
    [resp |-> Response(status, reason, message, n, id), stories |-> stories, teams |-> teams,
     activities |-> activities, next_story_id |-> next_story_id]

PROJECT_INACTIVE == "The project is inactive."
NO_PERMISSION == "No permission"
NOT_FOUND == "Not found"
INVALID_TRANSITION == "InvalidTransition"
INTEGRITY_ERROR == "IntegrityError"

\* the assignee logic that opens create_story: [found, id, name]
resolve_assignee(u, data) ==
    LET is_team_lead == data.team_id # 0 /\ data.team_id \in led_teams(u)
        is_project_lead == \E t \in led_teams(u) : teams[t].project_id = data.project_id
    IN IF role(u) = DEVELOPER /\ ~(is_team_lead \/ is_project_lead)
           THEN [found |-> TRUE, id |-> u, name |-> users[u].username]
       ELSE IF data.assignee_id # 0
           THEN IF data.assignee_id \in DOMAIN users
                   THEN [found |-> TRUE, id |-> data.assignee_id,
                         name |-> users[data.assignee_id].username]
                   ELSE [found |-> FALSE, id |-> 0, name |-> ""]
       ELSE [found |-> TRUE, id |-> 0,
             name |-> IF data.assignee_name = "" THEN "Unassigned" ELSE data.assignee_name]

\* create_story up to and including the identifier scan: [status, reason, ...]
create_story_scan(u, data) ==
    LET a == resolve_assignee(u, data)
        none == [message |-> "", story_code |-> <<>>, assignee_id |-> 0, assignee |-> ""]
    IN IF ~a.found THEN [status |-> 404, reason |-> NOT_FOUND] @@ none
       ELSE IF data.project_id \notin DOMAIN projects
           THEN [status |-> 404, reason |-> NOT_FOUND] @@ none
       ELSE IF check_project_active_raises(projects[data.project_id].is_active)
           THEN [status |-> 403, reason |-> PROJECT_INACTIVE] @@ none
       ELSE IF ~can_create_issue(u, data.project_id, data.team_id)
           THEN [status |-> 403, reason |-> NO_PERMISSION] @@ none
       ELSE LET v == validate_hierarchy(stories, data.parent_issue_id, data.issue_type, 0)
            IN IF ~v.ok THEN [status |-> 400, reason |-> v.error, message |-> v.message] @@ none
               ELSE [status |-> 200, reason |-> "", message |-> "",
                     story_code |-> get_next_story_code(stories, projects, data.project_id),
                     assignee_id |-> a.id, assignee |-> a.name]

\* create_story_write that takes the identifier from a scan of its own
create_story_write_scans_again(u, data, scan) ==
    IF scan.assignee_id # 0 /\ data.team_id # 0 /\ data.team_id \notin DOMAIN teams
        THEN Raised(404, NOT_FOUND, "", 0, 0)
    ELSE
        LET id == next_story_id
            row == [project_id |-> data.project_id,
                    story_pointer |-> get_next_story_code(stories, projects, data.project_id),
                    assignee |-> scan.assignee,
                    assignee_id |-> scan.assignee_id,
                    title |-> data.title,
                    issue_type |-> data.issue_type,
                    status |-> data.status,
                    team_id |-> data.team_id,
                    parent_issue_id |-> data.parent_issue_id]
            roster == IF scan.assignee_id # 0 /\ data.team_id # 0
                         THEN [teams EXCEPT ![data.team_id].members = @ \cup {scan.assignee_id}]
                         ELSE teams
        IN [resp |-> Response(200, "", "", 0, id),
            stories |-> (id :> row) @@ stories,
            teams |-> roster,
            activities |-> create_activity(activities, id, u, CREATED, 1),
            next_story_id |-> next_story_id + 1]

\* create_story after the scan: the team roster, the row, the activity, the commit
create_story_write(u, data, scan) ==
    IF scan.assignee_id # 0 /\ data.team_id # 0 /\ data.team_id \notin DOMAIN teams
        THEN Raised(404, NOT_FOUND, "", 0, 0)
    ELSE
        LET id == next_story_id
            row == [project_id |-> data.project_id,
                    story_pointer |-> scan.story_code,
                    assignee |-> scan.assignee,
                    assignee_id |-> scan.assignee_id,
                    title |-> data.title,
                    issue_type |-> data.issue_type,
                    status |-> data.status,
                    team_id |-> data.team_id,
                    parent_issue_id |-> data.parent_issue_id]
            roster == IF scan.assignee_id # 0 /\ data.team_id # 0
                         THEN [teams EXCEPT ![data.team_id].members = @ \cup {scan.assignee_id}]
                         ELSE teams
        IN [resp |-> Response(200, "", "", 0, id),
            stories |-> (id :> row) @@ stories,
            teams |-> roster,
            activities |-> create_activity(activities, id, u, CREATED, 1),
            next_story_id |-> next_story_id + 1]

create_story(u, data) ==
    LET scan == create_story_scan(u, data)
    IN IF scan.status # 200 THEN Raised(scan.status, scan.reason, scan.message, 0, 0)
       ELSE create_story_write(u, data, scan)

\* the fields of an update request, in the order the endpoint fills the dict
UpdateFields == <<"title", "assignee", "assignee_id", "status", "parent_issue_id", "issue_type">>

\* the field loop of update_story on one field: [row, changed]
apply_field(row, field, new_val, parent_validated) ==
    IF field = "parent_issue_id" /\ parent_validated
        THEN [row |-> [row EXCEPT !.parent_issue_id = new_val], changed |-> FALSE]
    ELSE IF row[field] = new_val THEN [row |-> row, changed |-> FALSE]
    ELSE IF field = "assignee_id"
        THEN [row |-> [row EXCEPT !.assignee_id = new_val,
                                  !.assignee = IF new_val \in DOMAIN users
                                                  THEN users[new_val].username ELSE "Unknown"],
              changed |-> TRUE]
    ELSE [row |-> [row EXCEPT ![field] = new_val], changed |-> TRUE]

RECURSIVE apply_fields(_, _, _, _)
\* the field loop from field number i on: [row, count]
apply_fields(row, updates, i, parent_validated) ==
    IF i > Len(UpdateFields) THEN [row |-> row, count |-> 0]
    ELSE LET f == UpdateFields[i]
         IN IF f \notin DOMAIN updates THEN apply_fields(row, updates, i + 1, parent_validated)
            ELSE LET one == apply_field(row, f, updates[f], parent_validated)
                     rest == apply_fields(one.row, updates, i + 1, parent_validated)
                 IN [row |-> rest.row, count |-> rest.count + (IF one.changed THEN 1 ELSE 0)]

\* strip_assignee that leaves every request as it came
strip_assignee_nobody(u, updates) == updates

\* del updates['assignee'], del updates['assignee_id'] for a DEVELOPER
strip_assignee(u, updates) ==
    IF role(u) = DEVELOPER
        THEN [f \in DOMAIN updates \ {"assignee", "assignee_id"} |-> updates[f]]
        ELSE updates

\* update_story that runs the status guard after the field loop and leaves
\* the fields it has set in place when the guard raises
update_story_guards_after_write(u, story_id, request) ==
    IF story_id \notin DOMAIN stories THEN Raised(404, NOT_FOUND, "", 0, story_id)
    ELSE LET story == stories[story_id] IN
    IF check_project_active_raises(projects[story.project_id].is_active)
        THEN Raised(403, PROJECT_INACTIVE, "", 0, story_id)
    ELSE IF ~can_update_issue(u, story) THEN Raised(403, NO_PERMISSION, "", 0, story_id)
    ELSE
        LET updates == strip_assignee(u, request)
            reparent == "parent_issue_id" \in DOMAIN updates
                        /\ updates["parent_issue_id"] # story.parent_issue_id
            v == validate_hierarchy(stories, updates["parent_issue_id"], story.issue_type, story_id)
            restatus == "status" \in DOMAIN updates /\ updates["status"] # story.status
            t == validate_status_transition(stories, story_id, updates["status"])
            done == apply_fields(story, updates, 1, reparent)
            count == done.count + (IF reparent THEN 1 ELSE 0)
        IN IF reparent /\ ~v.ok THEN Raised(400, v.error, v.message, 0, story_id)
           ELSE [resp |-> IF restatus /\ ~t.ok
                             THEN Response(400, INVALID_TRANSITION, "Cannot mark as Done: Child issues are not Done", t.pending, story_id)
                             ELSE Response(200, "", "", 0, story_id),
                 stories |-> [stories EXCEPT ![story_id] = done.row],
                 teams |-> teams,
                 activities |-> IF restatus /\ ~t.ok THEN activities
                                ELSE create_activity(activities, story_id, u, UPDATED, count),
                 next_story_id |-> next_story_id]

update_story(u, story_id, request) ==
    IF story_id \notin DOMAIN stories THEN Raised(404, NOT_FOUND, "", 0, story_id)
    ELSE LET story == stories[story_id] IN
    IF check_project_active_raises(projects[story.project_id].is_active)
        THEN Raised(403, PROJECT_INACTIVE, "", 0, story_id)
    ELSE IF ~can_update_issue(u, story) THEN Raised(403, NO_PERMISSION, "", 0, story_id)
    ELSE
        LET updates == strip_assignee(u, request)
            reparent == "parent_issue_id" \in DOMAIN updates
                        /\ updates["parent_issue_id"] # story.parent_issue_id
            v == validate_hierarchy(stories, updates["parent_issue_id"], story.issue_type, story_id)
            restatus == "status" \in DOMAIN updates /\ updates["status"] # story.status
            t == validate_status_transition(stories, story_id, updates["status"])
        IN IF reparent /\ ~v.ok THEN Raised(400, v.error, v.message, 0, story_id)
           ELSE IF restatus /\ ~t.ok THEN Raised(400, INVALID_TRANSITION, "Cannot mark as Done: Child issues are not Done", t.pending, story_id)
           ELSE LET done == apply_fields(story, updates, 1, reparent)
                    count == done.count + (IF reparent THEN 1 ELSE 0)
                IN [resp |-> Response(200, "", "", 0, story_id),
                    stories |-> [stories EXCEPT ![story_id] = done.row],
                    teams |-> teams,
                    activities |-> create_activity(activities, story_id, u, UPDATED, count),
                    next_story_id |-> next_story_id]

\* what the database does with the children of a deleted row
OnDeleteChildren == {"set_null", "cascade", "restrict"}

RECURSIVE descendants(_, _)
descendants(S, ids) ==
    LET more == {c \in DOMAIN S : S[c].parent_issue_id \in ids} \ ids
    IN IF more = {} THEN ids ELSE descendants(S, ids \cup more)

\* the rows left after deleting `id`
delete_story_record(S, id, on_children) ==
    IF on_children = "cascade"
        THEN [i \in DOMAIN S \ descendants(S, {id}) |-> S[i]]
        ELSE [i \in DOMAIN S \ {id} |->
                IF S[i].parent_issue_id = id THEN [S[i] EXCEPT !.parent_issue_id = 0] ELSE S[i]]

\* user_story_activity.story_id: ON DELETE CASCADE
cascade_activities(A, S) ==
    LET kept == {r \in BagToSet(A) : r.story_id \in DOMAIN S}
    IN [r \in kept |-> A[r]]

delete_user_story(u, id, on_children) ==
    IF id \notin DOMAIN stories THEN Raised(404, NOT_FOUND, "", 0, id)
    ELSE IF check_project_active_raises(projects[stories[id].project_id].is_active)
        THEN Raised(403, PROJECT_INACTIVE, "", 0, id)
    ELSE IF on_children = "restrict" /\ children(stories, id) # {}
        THEN Raised(500, INTEGRITY_ERROR, "", 0, id)
    ELSE LET left == delete_story_record(stories, id, on_children)
         IN [resp |-> Response(200, "", "", 0, id),
             stories |-> left,
             teams |-> teams,
             activities |-> cascade_activities(activities, left),
             next_story_id |-> next_story_id]

\* auth/permissions.py, the team gates
is_project_lead(u, project_id) ==
    IF project_id \in DOMAIN projects /\ projects[project_id].owner_id = u THEN TRUE
    ELSE \E t \in DOMAIN teams : teams[t].project_id = project_id /\ teams[t].lead_id = u

\* can_manage_team_members that does not ask is_project_lead
can_manage_team_members_own_team(u, team) ==
    IF is_master_admin(u) THEN TRUE
    ELSE IF role(u) = ADMIN THEN TRUE
    ELSE team.lead_id = u

can_manage_team_members(u, team) ==
    IF is_master_admin(u) THEN TRUE
    ELSE IF role(u) = ADMIN THEN TRUE
    ELSE IF team.lead_id = u THEN TRUE
    ELSE is_project_lead(u, team.project_id)

\* raise_story_not_found and raise_forbidden are not imported by the endpoint
NAME_ERROR == "NameError"

\* GET /user-stories/{id}
get_story_by_id(u, id) ==
    IF id \notin DOMAIN stories THEN Raised(500, NAME_ERROR, "", 0, id)
    ELSE IF ~can_view_issue(u, stories[id], stories) THEN Raised(500, NAME_ERROR, "", 0, id)
    ELSE Raised(200, "", "", 0, id)

(***************************************************************************)
(* The initial database: four users, three projects, one team, no issue.   *)
(***************************************************************************)
Workers == {1, 2}

Idle == [pc |-> "idle", user |-> 0, data |-> <<>>, scan |-> <<>>]

Init ==
    /\ users = (1 :> [email |-> MASTER_EMAIL, username |-> "admin",
                      _role |-> MASTER_ADMIN, _view_mode |-> DEVELOPER])
            @@ (2 :> [email |-> "owner@jira.local", username |-> "owner",
                      _role |-> ADMIN, _view_mode |-> ADMIN])
            @@ (3 :> [email |-> "lead@jira.local", username |-> "lead",
                      _role |-> DEVELOPER, _view_mode |-> DEVELOPER])
            @@ (4 :> [email |-> "dev@jira.local", username |-> "dev",
                      _role |-> DEVELOPER, _view_mode |-> DEVELOPER])
    /\ projects = (1 :> [name |-> <<"a", "b", "c">>, project_prefix |-> <<"A", "B">>,
                         owner_id |-> 2, is_active |-> TRUE])
               @@ (2 :> [name |-> <<"a", "b", "x">>, project_prefix |-> <<"A", "B">>,
                         owner_id |-> 2, is_active |-> TRUE])
               @@ (3 :> [name |-> <<"c", "d", "e">>, project_prefix |-> <<>>,
                         owner_id |-> 4, is_active |-> TRUE])
    /\ teams = (1 :> [project_id |-> 1, lead_id |-> 3, members |-> {4}])
    /\ stories = <<>>
    /\ next_story_id = 1
    /\ activities = EmptyBag
    /\ sessions = [w \in Workers |-> Idle]
    /\ mode_requests = <<>>
    /\ last = [op |-> "none", status |-> 0, reason |-> "", message |-> "", n |-> 0, id |-> 0]

\* the handler's result becomes the database and the response
Commit(op, r) ==
    /\ stories' = r.stories
    /\ teams' = r.teams
    /\ activities' = r.activities
    /\ next_story_id' = r.next_story_id
    /\ last' = [op |-> op] @@ r.resp
    /\ UNCHANGED <<mode_requests, users, projects, sessions>>

\* a create request: the fields of the form that the model varies
CreateData(project_id, issue_type, parent_issue_id, status, team_id, assignee_id) ==
    [project_id |-> project_id, issue_type |-> issue_type,
     parent_issue_id |-> parent_issue_id, status |-> status, team_id |-> team_id,
     assignee_id |-> assignee_id, assignee_name |-> "", title |-> "t"]

Room(max_issues, max_activities) ==
    /\ next_story_id <= max_issues
    /\ BagCardinality(activities) < max_activities

(***************************************************************************)
(* Spec: the master admin builds and rearranges a hierarchy in project 1.  *)
(***************************************************************************)
\* issue types a request may carry: the five types and one that is none of them
RequestTypes == IssueType \cup {""}

HierCreate ==
    \E t \in RequestTypes, p \in 0..MaxIssues :
        /\ Room(MaxIssues, MaxActivities)
        /\ Commit("create", create_story(1, CreateData(1, t, p, TODO, 0, 0)))

HierUpdateRequests ==
    {("parent_issue_id" :> p) : p \in 0..MaxIssues}
    \cup {("issue_type" :> t) : t \in RequestTypes}
    \cup {("parent_issue_id" :> p) @@ ("issue_type" :> EPIC) : p \in 0..MaxIssues}

HierUpdate ==
    \E id \in 1..MaxIssues, request \in HierUpdateRequests :
        /\ BagCardinality(activities) < MaxActivities
        /\ Commit("update", update_story(1, id, request))

Next == HierCreate \/ HierUpdate

Spec == Init /\ [][Next]_vars

(***************************************************************************)
(* Claims checked under Spec.                                              *)
(***************************************************************************)
\* the parent of a stored issue has a type the table allows for the issue
parent_type_ok(S, i) ==
    S[i].parent_issue_id = 0
    \/ (S[i].parent_issue_id \in DOMAIN S
        /\ S[S[i].parent_issue_id].issue_type \in valid_parents(S[i].issue_type))

\* C2: after any sequence of successful create_story and update_story
\* operations every stored issue satisfies the type table: an Epic has no
\* parent, and the parent of a Story is an Epic, of a Task a Story, of a
\* Subtask a Task, of a Bug a Story or a Task.
C2_TypeTableKept ==
    \A i \in DOMAIN stories :
        /\ stories[i].issue_type = EPIC => stories[i].parent_issue_id = 0
        /\ parent_type_ok(stories, i)

\* the call is turned down by the self-parent or the cycle check of an update
stopped_before_types(S, parent_id, current_issue_id) ==
    current_issue_id # 0
    /\ (parent_id = current_issue_id \/ reaches(S, parent_id, current_issue_id, MaxDepth))

\* C3: for every issue type T and every existing parent issue,
\* validate_hierarchy accepts iff the parent's type is in P(T), and every
\* other combination is rejected with InvalidHierarchy; an Epic with no
\* parent is accepted. (A call that the self-parent or cycle check of an
\* update turns down never reaches the type table: it is rejected too.)
C3_TypeTableDecides ==
    /\ \A T \in IssueType, p \in DOMAIN stories, c \in {0} \cup DOMAIN stories :
          LET v == validate_hierarchy(stories, p, T, c)
          IN IF stopped_before_types(stories, p, c) THEN ~v.ok
             ELSE /\ v.ok <=> stories[p].issue_type \in valid_parents(T)
                  /\ ~v.ok => v.error = INVALID_HIERARCHY
    /\ \A c \in {0} \cup DOMAIN stories : validate_hierarchy(stories, 0, EPIC, c).ok

\* C3 witness: a Subtask was asked under a parent that is no Task and refused.
C3_Witness ==
    /\ last.op = "create"
    /\ last.status = 400
    /\ last.reason = INVALID_HIERARCHY
    /\ last.message = "Subtask must be a child of a Task"

\* C4: with no parent id, validate_hierarchy fails with InvalidHierarchy
\* exactly when the type is Subtask; for the other four types it returns
\* without error, and in neither case is an issue looked up.
C4_NoParent ==
    \A T \in IssueType, c \in {0} \cup DOMAIN stories :
        LET v == validate_hierarchy(stories, 0, T, c)
        IN /\ v.ok <=> T # SUBTASK
           /\ ~v.ok => v.error = INVALID_HIERARCHY
           /\ ~v.queried

\* C4 witness: a Subtask was asked with no parent and refused, with issues of
\* other types stored that were created with no parent.
C4_Witness ==
    /\ last.op = "create"
    /\ last.status = 400
    /\ last.message = "Subtask must belong to a Task (parent_issue_id required)."
    /\ \E i \in DOMAIN stories : stories[i].issue_type = BUG /\ stories[i].parent_issue_id = 0

(***************************************************************************)
(* SpecDeep: the master admin grows one chain of issues in project 1, each *)
(* new issue a Story under the latest issue, which an issue_type update    *)
(* has turned into an Epic; issue 1 is then moved under an issue of the    *)
(* chain.                                                                  *)
(***************************************************************************)
\* rows of user_story_activity the chain may need
DeepActivities == 2 * DeepIssues + 2

DeepCreate ==
    /\ Room(DeepIssues, DeepActivities)
    /\ Commit("create", create_story(1, CreateData(1, IF next_story_id = 1 THEN EPIC ELSE STORY,
                                                   next_story_id - 1, TODO, 0, 0)))

\* PUT issue_type=Epic on the latest issue, a Story under issue 1 or below
DeepRetypeLatest ==
    /\ next_story_id > 2
    /\ stories[next_story_id - 1].issue_type = STORY
    /\ BagCardinality(activities) < DeepActivities
    /\ Commit("update", update_story(1, next_story_id - 1, "issue_type" :> EPIC))

\* PUT issue_type=Story on issue 1, an Epic
DeepRetypeFirst ==
    /\ 1 \in DOMAIN stories
    /\ stories[1].issue_type = EPIC
    /\ BagCardinality(activities) < DeepActivities
    /\ Commit("update", update_story(1, 1, "issue_type" :> STORY))

\* PUT parent_issue_id on issue 1: its child or the latest issue
DeepReparent ==
    \E p \in {2, next_story_id - 1} :
        /\ 1 \in DOMAIN stories
        /\ BagCardinality(activities) < DeepActivities
        /\ Commit("update", update_story(1, 1, "parent_issue_id" :> p))

NextDeep == DeepCreate \/ DeepRetypeLatest \/ DeepRetypeFirst \/ DeepReparent

SpecDeep == Init /\ [][NextDeep]_vars

(***************************************************************************)
(* Claims checked under SpecDeep.                                          *)
(***************************************************************************)
\* C1: after any sequence of successful create_story and update_story
\* operations no issue can be reached from itself by following
\* parent_issue_id.
C1_NoCycle ==
    \A i \in DOMAIN stories : ~reaches(stories, i, i, Cardinality(DOMAIN stories))

StatusInputs == {"done", "DONE", ""}

StatusCreate ==
    \E p \in 0..MaxIssues, s \in {TODO, DONE} :
        /\ Room(MaxIssues, MaxActivities + 1)
        /\ Commit("create", create_story(1, CreateData(1, IF p = 0 THEN EPIC ELSE STORY,
                                                       p, s, 0, 0)))

StatusUpdate ==
    \E id \in 1..MaxIssues, s \in StatusInputs :
        /\ BagCardinality(activities) < MaxActivities + 1
        /\ Commit("update", update_story(1, id, "status" :> s))

NextStatus == StatusCreate \/ StatusUpdate

SpecStatus == Init /\ [][NextStatus]_vars

(***************************************************************************)
(* Claims checked under SpecStatus.                                        *)
(***************************************************************************)
\* the direct children of an issue whose status is not Done in any letter case
not_done_children(S, id) ==
    {c \in DOMAIN S : S[c].parent_issue_id = id /\ S[c].status \notin {"done", "Done", "DONE"}}

\* C6: for every issue with at least one direct child that is not Done, a
\* requested transition to Done in any letter case (a status other than the
\* one the issue has) fails with InvalidTransition carrying the number of
\* pending children and leaves every issue as it was; when every direct
\* child is Done the same transition succeeds and the status is stored.
C6_DoneGuard ==
    \A id \in DOMAIN stories, s \in {"done", "Done", "DONE"} :
        s # stories[id].status =>
            LET r == update_story(1, id, "status" :> s)
                pending == not_done_children(stories, id)
            IN IF pending # {}
                  THEN /\ r.resp.status = 400
                       /\ r.resp.reason = INVALID_TRANSITION
                       /\ r.resp.n = Cardinality(pending)
                       /\ r.stories = stories
                  ELSE /\ r.resp.status = 200
                       /\ r.stories = [stories EXCEPT ![id].status = s]

\* C6 witness: a transition to Done was refused to an issue with two pending
\* children, and the response carries the number 2.
C6_Witness ==
    /\ last.op = "update"
    /\ last.reason = INVALID_TRANSITION
    /\ last.n = 2
    /\ Cardinality(not_done_children(stories, last.id)) = 2

(***************************************************************************)
(* SpecCode: the master admin creates issues in the three projects and     *)
(* deletes issues, one request at a time.                                  *)
(***************************************************************************)
\* an Epic, or a Story under issue 1
CodeCreate ==
    \E project_id \in DOMAIN projects, p \in {0, 1} :
        /\ Room(MaxCodeIssues, MaxCodeIssues)
        /\ Commit("create", create_story(1, CreateData(project_id, IF p = 0 THEN EPIC ELSE STORY,
                                                       p, TODO, 0, 0)))

CodeDelete ==
    \E id \in 1..MaxCodeIssues, on_children \in OnDeleteChildren :
        /\ next_story_id > 1
        /\ Commit("delete", delete_user_story(1, id, on_children))

NextCode == CodeCreate \/ CodeDelete

SpecCode == Init /\ [][NextCode]_vars

(***************************************************************************)
(* Claims checked under SpecCode.                                          *)
(***************************************************************************)
\* C7: after any sequence of create_story and delete operations executed
\* one at a time, no two existing issues of the same project carry the same
\* story_pointer.
C7_UniquePointers ==
    \A i, j \in DOMAIN stories :
        i # j /\ stories[i].project_id = stories[j].project_id
            => stories[i].story_pointer # stories[j].story_pointer

\* C7 witness: an issue was created after a delete, in a project that holds
\* another issue.
C7_Witness ==
    /\ last.op = "create"
    /\ last.status = 200
    /\ Cardinality(DOMAIN stories) < next_story_id - 1
    /\ \E j \in DOMAIN stories \ {last.id} : stories[j].project_id = stories[last.id].project_id

\* the number written in the last four characters of an identifier
suffix_number(pointer) ==
    LET n == Len(pointer)
    IN 1000 * digit_value(pointer[n - 3]) + 100 * digit_value(pointer[n - 2])
       + 10 * digit_value(pointer[n - 1]) + digit_value(pointer[n])

\* the numbers of the stored identifiers that begin with prefix and a dash
stored_numbers(S, prefix) ==
    {suffix_number(S[i].story_pointer) :
        i \in {j \in DOMAIN S : /\ Len(S[j].story_pointer) = Len(prefix) + 1 + CodeWidth
                                /\ SubSeq(S[j].story_pointer, 1, Len(prefix) + 1) = prefix \o <<"-">>}}

\* C9: get_next_story_code depends on the stored identifiers only: it
\* returns the project's prefix, a dash and the largest stored number of
\* that prefix plus one (1 when there is none), and after one issue is
\* created with the returned identifier the next call returns the successor.
C9_NextCode ==
    \A project_id \in DOMAIN projects :
        LET prefix == story_prefix(projects[project_id])
            code == get_next_story_code(stories, projects, project_id)
            numbers == stored_numbers(stories, prefix)
            r == create_story(1, CreateData(project_id, EPIC, 0, TODO, 0, 0))
            after == get_next_story_code(r.stories, projects, project_id)
        IN /\ Len(code) = Len(prefix) + 1 + CodeWidth
           /\ SubSeq(code, 1, Len(prefix) + 1) = prefix \o <<"-">>
           /\ \A n \in numbers : n < suffix_number(code)
           /\ suffix_number(code) = 1 \/ suffix_number(code) - 1 \in numbers
           /\ numbers = {} => suffix_number(code) = 1
           /\ r.resp.status = 200
           /\ r.stories[r.resp.id].story_pointer = code
           /\ SubSeq(after, 1, Len(prefix) + 1) = prefix \o <<"-">>
           /\ suffix_number(after) = suffix_number(code) + 1

\* C9 witness: identifiers 1 and 3 of a prefix are stored, 2 was deleted,
\* and the next identifier of the prefix is number 4.
C9_Witness ==
    /\ last.op = "delete"
    /\ last.status = 200
    /\ stored_numbers(stories, story_prefix(projects[1])) = {1, 3}
    /\ suffix_number(get_next_story_code(stories, projects, 1)) = 4

(***************************************************************************)
(* SpecRace: two request workers serve create requests of the master admin *)
(* in projects 1 and 2. A create runs in one step, or in two: the part of  *)
(* create_story up to the identifier scan, and later the part that writes. *)
(***************************************************************************)
Pending == {w \in Workers : sessions[w].pc = "scanned"}

RaceData == {CreateData(project_id, EPIC, 0, TODO, 0, 0) : project_id \in {1, 2}}

\* create_story from its first line to its last, nothing in between
RaceCreate ==
    \E data \in RaceData :
        /\ next_story_id + Cardinality(Pending) <= MaxCodeIssues
        /\ LET r == create_story(1, data)
           IN /\ stories' = r.stories
              /\ teams' = r.teams
              /\ activities' = r.activities
              /\ next_story_id' = r.next_story_id
              /\ last' = [op |-> "create"] @@ r.resp
        /\ UNCHANGED <<mode_requests, users, projects, sessions>>

\* create_story up to and including get_next_story_code
RaceScan ==
    \E w \in Workers, data \in RaceData :
        /\ sessions[w].pc = "idle"
        /\ next_story_id + Cardinality(Pending) <= MaxCodeIssues
        /\ LET scan == create_story_scan(1, data)
           IN IF scan.status = 200
                 THEN /\ sessions' = [sessions EXCEPT ![w] = [pc |-> "scanned", user |-> 1,
                                                              data |-> data, scan |-> scan]]
                      /\ last' = [op |-> "scan"] @@ Response(200, "", "", 0, 0)
                 ELSE /\ sessions' = sessions
                      /\ last' = [op |-> "scan"] @@ Response(scan.status, scan.reason, scan.message, 0, 0)
        /\ UNCHANGED <<mode_requests, users, projects, teams, stories, next_story_id, activities>>

\* the rest of create_story, with the identifier the scan returned
RaceWrite ==
    \E w \in Pending :
        /\ LET r == create_story_write(sessions[w].user, sessions[w].data, sessions[w].scan)
           IN /\ stories' = r.stories
              /\ teams' = r.teams
              /\ activities' = r.activities
              /\ next_story_id' = r.next_story_id
              /\ last' = [op |-> "write"] @@ r.resp
        /\ sessions' = [sessions EXCEPT ![w] = Idle]
        /\ UNCHANGED <<mode_requests, users, projects>>

NextRace == RaceCreate \/ RaceScan \/ RaceWrite

SpecRace == Init /\ [][NextRace]_vars

(***************************************************************************)
(* Claims checked under SpecRace.                                          *)
(***************************************************************************)
\* two stored issues of one project carry the same identifier
duplicate_stored(S) ==
    \E i, j \in DOMAIN S :
        i # j /\ S[i].project_id = S[j].project_id /\ S[i].story_pointer = S[j].story_pointer

\* the identifier is carried by a stored issue of the project
pointer_stored(S, project_id, pointer) ==
    \E j \in DOMAIN S : S[j].project_id = project_id /\ S[j].story_pointer = pointer

\* the identifier is carried by a stored issue of some project
pointer_used(S, pointer) == \E j \in DOMAIN S : S[j].story_pointer = pointer

\* two creates of one project that have both scanned and not yet written
\* hold the same identifier, unless an issue carrying the identifier of one
\* of them was written between the two scans (in the project, or in another
\* project with the same prefix)
C8_SameNumber ==
    \A w1, w2 \in Pending :
        sessions[w1].data.project_id = sessions[w2].data.project_id
            => \/ sessions[w1].scan.story_code = sessions[w2].scan.story_code
               \/ pointer_used(stories, sessions[w1].scan.story_code)
               \/ pointer_used(stories, sessions[w2].scan.story_code)

\* the second part of a create stores the identifier its scan returned, also
\* when another create has stored it meanwhile, so that two issues of the
\* project then carry it; a create that runs in one step stores an identifier
\* that no issue of the project carries
C8_Step ==
    /\ \A w \in Pending :
          sessions'[w].pc = "idle" =>
              /\ last'.status = 200
              /\ stories'[last'.id].story_pointer = sessions[w].scan.story_code
              /\ pointer_stored(stories, sessions[w].data.project_id, sessions[w].scan.story_code)
                    => duplicate_stored(stories')
    /\ last'.op = "create" /\ last'.status = 200 =>
          ~pointer_stored(stories, stories'[last'.id].project_id, stories'[last'.id].story_pointer)

\* C8: when two create_story operations for the same project both run the
\* identifier scan before either writes its issue, both hold the same next
\* number and, once both have written, two issues of the project carry the
\* same identifier; a create whose scan and write run as one step produces
\* no duplicate identifier.
C8_Race == []C8_SameNumber /\ [][C8_Step]_vars

\* C8 witness: the second of two interleaved creates has written, and two
\* issues of project 1 carry the same identifier.
C8_Witness ==
    /\ last.op = "write"
    /\ last.status = 200
    /\ \E j \in DOMAIN stories \ {last.id} :
          /\ stories[j].project_id = 1
          /\ stories[last.id].project_id = 1
          /\ stories[j].story_pointer = stories[last.id].story_pointer

(***************************************************************************)
(* SpecActive: the master admin and the owner of project 1 create, update  *)
(* and delete issues of project 1 while the project is archived and        *)
(* restored.                                                               *)
(***************************************************************************)
Actors == {1, 2}

\* an Epic, or a Story of team 1 under issue 1
ActiveData == {CreateData(1, EPIC, 0, TODO, 0, 0), CreateData(1, STORY, 1, TODO, 1, 4)}

ActiveRequests == {("status" :> DONE), ("parent_issue_id" :> 0)}

\* the owner archives or restores the project
archive_project ==
    \E project_id \in {1}, is_active \in BOOLEAN :
        /\ projects[project_id].is_active # is_active
        /\ projects' = [projects EXCEPT ![project_id].is_active = is_active]
        /\ last' = [op |-> "archive"] @@ Response(200, "", "", 0, project_id)
        /\ UNCHANGED <<mode_requests, users, teams, stories, next_story_id, activities, sessions>>

ActiveCreate ==
    \E u \in Actors, data \in ActiveData :
        /\ Room(MaxIssues, MaxActivities)
        /\ Commit("create", create_story(u, data))

ActiveUpdate ==
    \E u \in Actors, id \in 1..MaxIssues, request \in ActiveRequests :
        /\ BagCardinality(activities) < MaxActivities
        /\ Commit("update", update_story(u, id, request))

ActiveDelete ==
    \E u \in Actors, id \in 1..MaxIssues, on_children \in OnDeleteChildren :
        /\ next_story_id > 1
        /\ Commit("delete", delete_user_story(u, id, on_children))

NextActive == archive_project \/ ActiveCreate \/ ActiveUpdate \/ ActiveDelete

SpecActive == Init /\ [][NextActive]_vars

(***************************************************************************)
(* Claims checked under SpecActive.                                        *)
(***************************************************************************)
\* the request failed and changed no issue
refused(r) == r.resp.status # 200 /\ r.stories = stories

\* C10: no create, update or delete of an issue succeeds while the issue's
\* project is inactive, for any actor including MASTER_ADMIN and the project
\* owner, and such a request leaves the set of issues and their fields
\* unchanged.
C10_InactiveFrozen ==
    \A u \in UserIds :
        /\ \A data \in ActiveData, project_id \in DOMAIN projects :
              ~projects[project_id].is_active
                  => refused(create_story(u, [data EXCEPT !.project_id = project_id]))
        /\ \A id \in DOMAIN stories :
              ~projects[stories[id].project_id].is_active
                  => /\ \A request \in ActiveRequests : refused(update_story(u, id, request))
                     /\ \A on_children \in OnDeleteChildren :
                           refused(delete_user_story(u, id, on_children))

\* C10 witness: a delete was refused because the project is inactive, and
\* the project holds an issue with a child.
C10_Witness ==
    /\ last.op = "delete"
    /\ last.status = 403
    /\ last.reason = PROJECT_INACTIVE
    /\ last.id \in DOMAIN stories
    /\ ~projects[stories[last.id].project_id].is_active
    /\ children(stories, last.id) # {}

(***************************************************************************)
(* SpecAccess: the access control evaluator behind the issue endpoints.    *)
(* The stored role and view mode of the owner, the lead and the member are *)
(* drawn from the values update_user_role and approve_request can store;   *)
(* user 5 is a plain developer on the roster of team 2 only.               *)
(***************************************************************************)
\* what update_user_role and approve_request have stored for a user: [role, view mode]
StoredModes == {<<DEVELOPER, DEVELOPER>>, <<ADMIN, DEVELOPER>>, <<TESTER, DEVELOPER>>,
                <<DEVELOPER, ADMIN>>}

AccessUsers ==
    {(1 :> [email |-> MASTER_EMAIL, username |-> "admin",
            _role |-> MASTER_ADMIN, _view_mode |-> DEVELOPER])
     @@ (2 :> [email |-> "owner@jira.local", username |-> "owner",
               _role |-> ADMIN, _view_mode |-> v2])
     @@ (3 :> [email |-> "lead@jira.local", username |-> "lead",
               _role |-> m3[1], _view_mode |-> m3[2]])
     @@ (4 :> [email |-> "dev@jira.local", username |-> "dev",
               _role |-> m4[1], _view_mode |-> m4[2]])
     @@ (5 :> [email |-> "plain@jira.local", username |-> "plain",
               _role |-> DEVELOPER, _view_mode |-> DEVELOPER]) :
        v2 \in {ADMIN, DEVELOPER}, m3 \in StoredModes \ {<<TESTER, DEVELOPER>>},
        m4 \in StoredModes \ {<<ADMIN, DEVELOPER>>}}

AccessDatabase ==
    /\ projects = (1 :> [name |-> <<"a", "b", "c">>, project_prefix |-> <<"A", "B">>,
                         owner_id |-> 2, is_active |-> TRUE])
               @@ (2 :> [name |-> <<"a", "b", "x">>, project_prefix |-> <<"A", "B">>,
                         owner_id |-> 2, is_active |-> TRUE])
               @@ (3 :> [name |-> <<"c", "d", "e">>, project_prefix |-> <<>>,
                         owner_id |-> 4, is_active |-> TRUE])
    /\ teams = (1 :> [project_id |-> 1, lead_id |-> 3, members |-> {}])
            @@ (2 :> [project_id |-> 1, lead_id |-> 0, members |-> {5}])
            @@ (3 :> [project_id |-> 2, lead_id |-> 4, members |-> {}])
    /\ stories = <<>>
    /\ next_story_id = 1
    /\ activities = EmptyBag
    /\ sessions = [w \in Workers |-> Idle]
    /\ mode_requests = <<>>
    /\ last = [op |-> "none", actor |-> 0, status |-> 0, reason |-> "", message |-> "",
               n |-> 0, id |-> 0]

InitAccess == users \in AccessUsers /\ AccessDatabase

\* Commit that also keeps the actor of the request with the response
CommitAs(u, op, r) ==
    /\ stories' = r.stories
    /\ teams' = r.teams
    /\ activities' = r.activities
    /\ next_story_id' = r.next_story_id
    /\ last' = [op |-> op, actor |-> u] @@ r.resp
    /\ UNCHANGED <<mode_requests, users, projects, sessions>>

\* Epics of project 1: in team 1 for user 4, in team 1 or 2 unassigned, without a team
AccessData == {CreateData(1, EPIC, 0, TODO, 1, 4), CreateData(1, EPIC, 0, TODO, 1, 0),
               CreateData(1, EPIC, 0, TODO, 2, 0), CreateData(1, EPIC, 0, TODO, 0, 4)}

AccessCreate ==
    \E u \in {1}, data \in AccessData :
        /\ next_story_id < MaxIssues
        /\ CommitAs(u, "create", create_story(u, data))

AccessUpdate ==
    \E u \in UserIds, id \in 1..MaxIssues :
        /\ next_story_id > 1
        /\ CommitAs(u, "update", update_story(u, id, ("title" :> "t")))

AccessView ==
    \E u \in UserIds, id \in 1..MaxIssues :
        /\ next_story_id > 1
        /\ CommitAs(u, "view", get_story_by_id(u, id))

NextAccess == AccessCreate \/ AccessUpdate \/ AccessView

SpecAccess == InitAccess /\ [][NextAccess]_vars

(***************************************************************************)
(* SpecGate: create and delete requests against the gates of an active or  *)
(* archived project 1.  The owner and the lead are in either view mode.    *)
(***************************************************************************)
InitGate ==
    /\ users \in {U \in AccessUsers : U[3]._role = DEVELOPER
                                       /\ U[4]._role = DEVELOPER /\ U[4]._view_mode = DEVELOPER}
    /\ AccessDatabase

GateData == {CreateData(1, EPIC, 0, TODO, 1, 4), CreateData(1, EPIC, 0, TODO, 2, 0)}

GateCreate ==
    \E u \in {1, 2, 3}, data \in GateData :
        /\ next_story_id < MaxIssues
        /\ CommitAs(u, "create", create_story(u, data))

GateDelete ==
    \E u \in UserIds, id \in 1..MaxIssues :
        /\ next_story_id > 1
        /\ CommitAs(u, "delete", delete_user_story(u, id, "set_null"))

GateArchive ==
    \E is_active \in BOOLEAN :
        /\ projects[1].is_active # is_active
        /\ projects' = [projects EXCEPT ![1].is_active = is_active]
        /\ last' = [op |-> "archive", actor |-> 2] @@ Response(200, "", "", 0, 1)
        /\ UNCHANGED <<mode_requests, users, teams, stories, next_story_id, activities, sessions>>

NextGate == GateCreate \/ GateDelete \/ GateArchive

SpecGate == InitGate /\ [][NextGate]_vars

\* C11: a delete request from an actor for whom can_delete_issue is false is
\* refused, and the issue remains stored.
C11_DeleteNeedsPermission ==
    \A u \in UserIds : \A id \in DOMAIN stories :
        ~can_delete_issue(u, stories[id]) => refused(delete_user_story(u, id, "set_null"))

\* the project and team ids a create request can carry: stored ones, 0 and an unknown one
ProjectIds == 0..4
TeamIds == 0..4

\* C12: can_create_issue is false if the project does not exist or is inactive;
\* otherwise true for the master admin; otherwise in ADMIN view mode true iff the
\* actor owns the project; in DEVELOPER view mode false for the owner and, for a
\* non-owner, true iff the actor leads or is a member of some team of the project,
\* whatever team id the request carries.
C12_CreateTable ==
    \A u \in UserIds : \A project_id \in ProjectIds : \A team_id \in TeamIds :
        can_create_issue(u, project_id, team_id) <=>
            /\ project_id \in DOMAIN projects
            /\ projects[project_id].is_active
            /\ \/ users[u].email = MASTER_EMAIL
               \/ /\ users[u].email # MASTER_EMAIL
                  /\ users[u]._view_mode = ADMIN
                  /\ projects[project_id].owner_id = u
               \/ /\ users[u].email # MASTER_EMAIL
                  /\ users[u]._view_mode = DEVELOPER
                  /\ projects[project_id].owner_id # u
                  /\ \E t \in DOMAIN teams :
                        /\ teams[t].project_id = project_id
                        /\ (teams[t].lead_id = u \/ u \in teams[t].members)

\* the lead of team 1, in DEVELOPER view mode, has created an issue for team 2
C12_Witness ==
    /\ last.op = "create" /\ last.actor = 3 /\ last.status = 200
    /\ view_mode(3) = DEVELOPER
    /\ stories[last.id].team_id = 2

\* C13 as stated: can_update_issue is true for every actor whose global role is
\* ADMIN, and for the master admin, on every issue of an active project, whoever
\* owns the project and whatever the actor's view mode is.
C13_AdminRoleUpdates ==
    \A u \in UserIds : \A id \in DOMAIN stories :
        projects[stories[id].project_id].is_active /\ role(u) \in {ADMIN, MASTER_ADMIN}
            => can_update_issue(u, stories[id])

\* C13, amended: on every issue of an active project can_update_issue is true for
\* the master admin, and for any other actor in ADMIN view mode it is true iff the
\* actor owns the issue's project, whatever the actor's global role is.
C13_AdminViewOwnerUpdates ==
    \A u \in UserIds : \A id \in DOMAIN stories :
        projects[stories[id].project_id].is_active =>
            /\ users[u].email = MASTER_EMAIL => can_update_issue(u, stories[id])
            /\ users[u].email # MASTER_EMAIL /\ users[u]._view_mode = ADMIN =>
                  (can_update_issue(u, stories[id])
                      <=> projects[stories[id].project_id].owner_id = u)

\* the lead of team 1, in ADMIN view mode, was refused the update of an issue of team 1
C13_Witness ==
    /\ last.op = "update" /\ last.actor = 3 /\ last.status = 403 /\ last.reason = NO_PERMISSION
    /\ view_mode(3) = ADMIN
    /\ stories[last.id].team_id = 1

\* u leads at least one team of project p
leads_in_project(u, p) == \E t \in DOMAIN teams : teams[t].lead_id = u /\ teams[t].project_id = p

\* u leads the team the issue belongs to, and that team is a team of the issue's project
leads_own_team(u, story) ==
    /\ story.team_id \in DOMAIN teams
    /\ teams[story.team_id].lead_id = u
    /\ teams[story.team_id].project_id = story.project_id

\* C14 as stated: can_update_issue is true for a DEVELOPER who leads any team of
\* the issue's active project, also when that team is not the issue's own team
\* and the actor is not the issue's assignee.
C14_AnyTeamLeadUpdates ==
    \A u \in UserIds : \A id \in DOMAIN stories :
        /\ projects[stories[id].project_id].is_active
        /\ role(u) = DEVELOPER
        /\ leads_in_project(u, stories[id].project_id)
        => can_update_issue(u, stories[id])

\* C14, amended: for an actor in DEVELOPER view mode who does not own the issue's
\* active project and leads a team of it, can_update_issue is true iff the team
\* the actor leads is the issue's own team or the actor is the issue's assignee.
C14_OwnTeamLeadUpdates ==
    \A u \in UserIds : \A id \in DOMAIN stories :
        /\ projects[stories[id].project_id].is_active
        /\ users[u].email # MASTER_EMAIL
        /\ users[u]._view_mode = DEVELOPER
        /\ projects[stories[id].project_id].owner_id # u
        /\ leads_in_project(u, stories[id].project_id)
        => (can_update_issue(u, stories[id])
                <=> leads_own_team(u, stories[id]) \/ stories[id].assignee_id = u)

\* the lead of team 1, in DEVELOPER view mode, was refused the update of an issue of team 2
C14_Witness ==
    /\ last.op = "update" /\ last.actor = 3 /\ last.status = 403 /\ last.reason = NO_PERMISSION
    /\ view_mode(3) = DEVELOPER /\ role(3) = DEVELOPER
    /\ stories[last.id].team_id = 2
    /\ stories[last.id].assignee_id # 3

\* the issue belongs to a team of its own active project, has an assignee, and the
\* team has a lead who is not the assignee
team_scenario(story) ==
    /\ projects[story.project_id].is_active
    /\ story.team_id \in DOMAIN teams
    /\ teams[story.team_id].project_id = story.project_id
    /\ teams[story.team_id].lead_id \in UserIds
    /\ story.assignee_id \in UserIds
    /\ teams[story.team_id].lead_id # story.assignee_id

\* u is not on the roster of the issue's team, leads no team and is not the assignee
outsider(u, story) ==
    /\ u \notin teams[story.team_id].members
    /\ led_teams(u) = {}
    /\ story.assignee_id # u

\* C15 as stated: for an issue of team X assigned to U in an active project, the
\* lead L of X is allowed by can_update_issue and can_delete_issue, U is allowed
\* by can_update_issue, and a DEVELOPER who is neither in X, nor a lead, nor the
\* assignee is denied by can_update_issue.
C15_TeamScenario ==
    \A id \in DOMAIN stories :
        team_scenario(stories[id]) =>
            LET L == teams[stories[id].team_id].lead_id
                U == stories[id].assignee_id
            IN /\ can_update_issue(L, stories[id])
               /\ can_delete_issue(L, stories[id])
               /\ can_update_issue(U, stories[id])
               /\ \A d \in UserIds :
                      role(d) = DEVELOPER /\ outsider(d, stories[id])
                          => ~can_update_issue(d, stories[id])

\* u is in DEVELOPER view mode and does not own project p
developer_view(u, p) == view_mode(u) = DEVELOPER /\ projects[p].owner_id # u

\* C15, amended: in that scenario L is allowed by can_delete_issue; L and U are
\* allowed by can_update_issue when they are in DEVELOPER view mode and do not own
\* the project; an actor in DEVELOPER view mode who is neither in X, nor a lead,
\* nor the assignee is denied by can_update_issue.
C15_TeamScenarioDeveloperView ==
    \A id \in DOMAIN stories :
        team_scenario(stories[id]) =>
            LET L == teams[stories[id].team_id].lead_id
                U == stories[id].assignee_id
                P == stories[id].project_id
            IN /\ can_delete_issue(L, stories[id])
               /\ developer_view(L, P) => can_update_issue(L, stories[id])
               /\ developer_view(U, P) => can_update_issue(U, stories[id])
               /\ \A d \in UserIds :
                      view_mode(d) = DEVELOPER /\ outsider(d, stories[id])
                          => ~can_update_issue(d, stories[id])

\* the assignee of an issue of team 1 has updated it; lead and assignee are in DEVELOPER view
C15_Witness ==
    /\ last.op = "update" /\ last.actor = 4 /\ last.status = 200
    /\ team_scenario(stories[last.id])
    /\ stories[last.id].assignee_id = 4
    /\ view_mode(3) = DEVELOPER /\ view_mode(4) = DEVELOPER

\* C16: can_delete_issue is true exactly when the issue's project is active and the
\* actor is the master admin, or is in ADMIN view mode and owns the project, or
\* leads the issue's team and that team is a team of the issue's project; leading
\* another team of the same project does not grant delete.
C16_DeleteTable ==
    \A u \in UserIds : \A id \in DOMAIN stories :
        LET story == stories[id] IN
        /\ can_delete_issue(u, story) <=>
              /\ projects[story.project_id].is_active
              /\ \/ users[u].email = MASTER_EMAIL
                 \/ users[u]._view_mode = ADMIN /\ projects[story.project_id].owner_id = u
                 \/ \E t \in DOMAIN teams :
                       t = story.team_id /\ teams[t].lead_id = u
                       /\ teams[t].project_id = story.project_id
        /\ users[u].email # MASTER_EMAIL /\ projects[story.project_id].owner_id # u
           /\ ~(\E t \in DOMAIN teams : t = story.team_id /\ teams[t].lead_id = u)
              => ~can_delete_issue(u, story)

\* project 1 is active and holds an issue of team 1 and an issue of team 2: the
\* lead of team 1 may delete the first and not the second
C16_Witness ==
    /\ projects[1].is_active
    /\ \E a \in DOMAIN stories : \E b \in DOMAIN stories :
          /\ stories[a].team_id = 1 /\ can_delete_issue(3, stories[a])
          /\ stories[b].team_id = 2 /\ ~can_delete_issue(3, stories[b])
          /\ leads_in_project(3, stories[b].project_id)

\* u is on the roster of the issue's team
on_roster(u, story) == story.team_id \in DOMAIN teams /\ u \in teams[story.team_id].members

\* u is the assignee of some stored issue of project p
assigned_in_project(u, p) ==
    \E i \in DOMAIN stories : stories[i].project_id = p /\ stories[i].assignee_id = u

\* C17 as stated: for a DEVELOPER actor can_view_issue is true iff the actor leads
\* the issue's own team, or leads any team of the issue's project, or is the
\* issue's assignee; membership of the issue's team, or being the assignee of
\* another issue of the project, does not grant view.
C17_DeveloperViewNarrow ==
    \A u \in UserIds : \A id \in DOMAIN stories :
        role(u) = DEVELOPER =>
            (can_view_issue(u, stories[id], stories)
                <=> \/ leads_own_team(u, stories[id])
                    \/ leads_in_project(u, stories[id].project_id)
                    \/ stories[id].assignee_id = u)

\* C17, amended: for an actor in DEVELOPER view mode who does not own the issue's
\* project, can_view_issue is true iff the actor leads any team of the issue's
\* project, or is on the roster of the issue's team, or is the assignee of the
\* issue or of any other issue of the project.
C17_DeveloperViewBroad ==
    \A u \in UserIds : \A id \in DOMAIN stories :
        /\ users[u].email # MASTER_EMAIL
        /\ users[u]._view_mode = DEVELOPER
        /\ projects[stories[id].project_id].owner_id # u
        => (can_view_issue(u, stories[id], stories)
                <=> \/ leads_in_project(u, stories[id].project_id)
                    \/ on_roster(u, stories[id])
                    \/ stories[id].assignee_id = u
                    \/ assigned_in_project(u, stories[id].project_id))

\* user 5, in DEVELOPER view mode, was shown an unassigned issue of team 2: user 5
\* leads no team and is no assignee, and is on the roster of team 2
C17_Witness ==
    /\ last.op = "view" /\ last.actor = 5 /\ last.status = 200
    /\ view_mode(5) = DEVELOPER
    /\ on_roster(5, stories[last.id])
    /\ ~assigned_in_project(5, stories[last.id].project_id)
    /\ ~leads_in_project(5, stories[last.id].project_id)

\* the stored role of u is none of MASTER_ADMIN, ADMIN and DEVELOPER
other_role(u) == role(u) \notin {MASTER_ADMIN, ADMIN, DEVELOPER}

\* C18 as stated: for an actor whose global role is none of MASTER_ADMIN, ADMIN,
\* OWNER and DEVELOPER, can_update_issue and can_view_issue are false for every
\* issue, the issues assigned to that actor included.
C18_OtherRoleDenied ==
    \A u \in UserIds : \A id \in DOMAIN stories :
        other_role(u) => /\ ~can_update_issue(u, stories[id])
                         /\ ~can_view_issue(u, stories[id], stories)

\* C18, amended: such an actor, in DEVELOPER view mode and not owning the issue's
\* active project, is allowed by can_update_issue iff the actor leads the issue's
\* own team or is its assignee, and by can_view_issue iff the actor leads a team
\* of the project, is on the roster of the issue's team, or is the assignee of the
\* issue or of another issue of the project.
C18_OtherRoleAsDeveloper ==
    \A u \in UserIds : \A id \in DOMAIN stories :
        /\ other_role(u)
        /\ view_mode(u) = DEVELOPER
        /\ projects[stories[id].project_id].is_active
        /\ projects[stories[id].project_id].owner_id # u
        => /\ can_update_issue(u, stories[id])
                <=> leads_own_team(u, stories[id]) \/ stories[id].assignee_id = u
           /\ can_view_issue(u, stories[id], stories)
                <=> \/ leads_in_project(u, stories[id].project_id)
                    \/ on_roster(u, stories[id])
                    \/ assigned_in_project(u, stories[id].project_id)

\* a TESTER has updated the issue assigned to them
C18_Witness ==
    /\ last.op = "update" /\ last.actor = 4 /\ last.status = 200
    /\ role(4) = TESTER
    /\ stories[last.id].assignee_id = 4

(***************************************************************************)
(* models/user.py setters, endpoints/v1/admin_api.py and teams_api.py      *)
(***************************************************************************)
\* User.role setter
set_role(user, value) == [user EXCEPT !._role = value]

ALL_ROLES == {ADMIN, DEVELOPER, TESTER, MASTER_ADMIN}

\* new_role.upper() on the role names a request carries
upper_role(s) ==
    CASE s = "admin" -> "ADMIN"
      [] s = "developer" -> "DEVELOPER"
      [] s = "tester" -> "TESTER"
      [] s = "owner" -> "OWNER"
      [] OTHER -> s

FORBIDDEN == "Forbidden"
BAD_REQUEST == "BadRequest"

\* PUT /admin/users/{user_id}/role: [resp, users]
update_user_role(current_user, user_id, new_role) ==
    IF ~is_master_admin(current_user)
        THEN [resp |-> Response(403, FORBIDDEN, "", 0, user_id), users |-> users]
    ELSE IF upper_role(new_role) \notin ALL_ROLES
        THEN [resp |-> Response(500, NAME_ERROR, "", 0, user_id), users |-> users]
    ELSE IF user_id \notin DOMAIN users
        THEN [resp |-> Response(404, NOT_FOUND, "", 0, user_id), users |-> users]
    ELSE IF user_id = current_user /\ upper_role(new_role) # ADMIN
        THEN [resp |-> Response(400, BAD_REQUEST, "", 0, user_id), users |-> users]
    ELSE [resp |-> Response(200, "", "", 0, user_id),
          users |-> [users EXCEPT ![user_id] = set_role(@, upper_role(new_role))]]

\* team_service.update_team: the roster becomes the member ids of the request
team_service_update_team(T, team_id, member_ids) == [T EXCEPT ![team_id].members = member_ids]

\* PUT /teams/{team_id}: [resp, teams]
update_team(u, team_id, member_ids) ==
    IF team_id \notin DOMAIN teams
        THEN [resp |-> Response(404, NOT_FOUND, "", 0, team_id), teams |-> teams]
    ELSE IF ~can_manage_team_members(u, teams[team_id])
        THEN [resp |-> Response(403, FORBIDDEN, "", 0, team_id), teams |-> teams]
    ELSE [resp |-> Response(200, "", "", 0, team_id),
          teams |-> team_service_update_team(teams, team_id, member_ids)]

(***************************************************************************)
(* SpecTeams: the master admin changes the stored roles of the lead and of *)
(* the plain developer while every user tries to change the rosters.       *)
(***************************************************************************)
InitTeams ==
    /\ users \in {U \in AccessUsers : \A u \in {3, 4} : U[u]._role = DEVELOPER
                                                       /\ U[u]._view_mode = DEVELOPER}
    /\ AccessDatabase

RoleInputs == {"admin", "TESTER", "DEVELOPER", "OWNER"}

TeamsUpdateRole ==
    \E current_user \in {1, 3}, user_id \in {3, 5}, new_role \in RoleInputs :
        /\ users' = update_user_role(current_user, user_id, new_role).users
        /\ last' = [op |-> "update_user_role", actor |-> current_user]
                   @@ update_user_role(current_user, user_id, new_role).resp
        /\ UNCHANGED <<projects, teams, stories, next_story_id, activities, sessions,
                       mode_requests>>

TeamsUpdateTeam ==
    \E u \in UserIds, team_id \in 1..4, member_ids \in {{}, {5}} :
        /\ teams' = update_team(u, team_id, member_ids).teams
        /\ last' = [op |-> "update_team", actor |-> u] @@ update_team(u, team_id, member_ids).resp
        /\ UNCHANGED <<users, projects, stories, next_story_id, activities, sessions,
                       mode_requests>>

NextTeams == TeamsUpdateRole \/ TeamsUpdateTeam

SpecTeams == InitTeams /\ [][NextTeams]_vars

\* C19: can_manage_team_members is true iff the actor is the master admin, or has
\* global role ADMIN, or leads the given team, or is_project_lead holds for the
\* team's project; is_project_lead is true iff the actor owns the project or
\* leads at least one team in it.
C19_ManageTable ==
    /\ \A u \in UserIds : \A t \in DOMAIN teams :
          can_manage_team_members(u, teams[t]) <=>
              \/ users[u].email = MASTER_EMAIL
              \/ users[u].email # MASTER_EMAIL /\ users[u]._role = ADMIN
              \/ teams[t].lead_id = u
              \/ teams[t].project_id \in DOMAIN projects
                    /\ projects[teams[t].project_id].owner_id = u
              \/ leads_in_project(u, teams[t].project_id)
    /\ \A u \in UserIds : \A p \in ProjectIds :
          is_project_lead(u, p) <=>
              \/ p \in DOMAIN projects /\ projects[p].owner_id = u
              \/ leads_in_project(u, p)

\* the lead of team 1, whose role is not ADMIN, has changed the roster of team 2,
\* a team of the same project that has no lead
C19_Witness ==
    /\ last.op = "update_team" /\ last.actor = 3 /\ last.status = 200 /\ last.id = 2
    /\ role(3) = TESTER
    /\ teams[2].lead_id # 3

(***************************************************************************)
(* models/user.py view_mode setter and endpoints/v1/mode_switch_api.py     *)
(***************************************************************************)
\* User.view_mode setter without the test for the reserved email
set_view_mode_unguarded(user, value) == [user EXCEPT !._view_mode = value]

\* User.view_mode setter
set_view_mode(user, value) ==
    IF user.email = MASTER_EMAIL THEN user ELSE [user EXCEPT !._view_mode = value]

PENDING == "PENDING"
APPROVED == "APPROVED"
REJECTED == "REJECTED"

\* POST /mode-switch/request: [resp, mode_requests]
create_switch_request(u, requested_mode) ==
    IF is_master_admin(u)
        THEN [resp |-> Response(400, BAD_REQUEST, "", 0, 0), mode_requests |-> mode_requests]
    ELSE IF requested_mode \notin {ADMIN, DEVELOPER}
        THEN [resp |-> Response(400, BAD_REQUEST, "", 0, 0), mode_requests |-> mode_requests]
    ELSE IF \E i \in DOMAIN mode_requests :
                mode_requests[i].user_id = u /\ mode_requests[i].status = PENDING
        THEN [resp |-> Response(400, BAD_REQUEST, "", 0, 0), mode_requests |-> mode_requests]
    ELSE [resp |-> Response(200, "", "", 0, Len(mode_requests) + 1),
          mode_requests |-> Append(mode_requests, [user_id |-> u,
                                                   requested_mode |-> requested_mode,
                                                   status |-> PENDING])]

\* approve_request that does not ask whether the request is still pending
approve_request_any_status(u, request_id) ==
    IF ~is_master_admin(u)
        THEN [resp |-> Response(403, FORBIDDEN, "", 0, request_id),
              users |-> users, mode_requests |-> mode_requests]
    ELSE IF request_id \notin DOMAIN mode_requests
        THEN [resp |-> Response(404, NOT_FOUND, "", 0, request_id),
              users |-> users, mode_requests |-> mode_requests]
    ELSE LET request == mode_requests[request_id]
             target_user == request.user_id
         IN [resp |-> Response(200, "", "", 0, request_id),
             users |-> [users EXCEPT ![target_user] =
                           set_view_mode(set_role(@, request.requested_mode),
                                         request.requested_mode)],
             mode_requests |-> [mode_requests EXCEPT ![request_id].status = APPROVED]]

\* POST /mode-switch/approve/{request_id}: [resp, users, mode_requests]
approve_request(u, request_id) ==
    IF ~is_master_admin(u)
        THEN [resp |-> Response(403, FORBIDDEN, "", 0, request_id),
              users |-> users, mode_requests |-> mode_requests]
    ELSE IF request_id \notin DOMAIN mode_requests
        THEN [resp |-> Response(404, NOT_FOUND, "", 0, request_id),
              users |-> users, mode_requests |-> mode_requests]
    ELSE IF mode_requests[request_id].status # PENDING
        THEN [resp |-> Response(400, BAD_REQUEST, "", 0, request_id),
              users |-> users, mode_requests |-> mode_requests]
    ELSE LET request == mode_requests[request_id]
             target_user == request.user_id
         IN [resp |-> Response(200, "", "", 0, request_id),
             users |-> [users EXCEPT ![target_user] =
                           set_view_mode(set_role(@, request.requested_mode),
                                         request.requested_mode)],
             mode_requests |-> [mode_requests EXCEPT ![request_id].status = APPROVED]]

\* POST /mode-switch/reject/{request_id}: [resp, users, mode_requests]
reject_request(u, request_id) ==
    IF ~is_master_admin(u)
        THEN [resp |-> Response(403, FORBIDDEN, "", 0, request_id),
              users |-> users, mode_requests |-> mode_requests]
    ELSE IF request_id \notin DOMAIN mode_requests
        THEN [resp |-> Response(404, NOT_FOUND, "", 0, request_id),
              users |-> users, mode_requests |-> mode_requests]
    ELSE IF mode_requests[request_id].status # PENDING
        THEN [resp |-> Response(400, BAD_REQUEST, "", 0, request_id),
              users |-> users, mode_requests |-> mode_requests]
    ELSE [resp |-> Response(200, "", "", 0, request_id),
          users |-> users,
          mode_requests |-> [mode_requests EXCEPT ![request_id].status = REJECTED]]

(***************************************************************************)
(* SpecRoles: role updates, mode-switch requests and approvals, and        *)
(* assignments to view_mode, for the master admin and for user 4.          *)
(***************************************************************************)
MaxRequests == 2    \* rows of mode_switch_requests

RolesUpdateRole ==
    \E current_user \in {1, 4}, user_id \in {1, 4},
       new_role \in {"admin", "TESTER", "OWNER", "MASTER_ADMIN"} :
        /\ users' = update_user_role(current_user, user_id, new_role).users
        /\ last' = [op |-> "update_user_role", actor |-> current_user]
                   @@ update_user_role(current_user, user_id, new_role).resp
        /\ UNCHANGED <<projects, teams, stories, next_story_id, activities, sessions,
                       mode_requests>>

RolesRequest ==
    \E u \in {1, 4}, requested_mode \in {ADMIN, DEVELOPER, TESTER} :
        /\ Len(mode_requests) < MaxRequests
        /\ mode_requests' = create_switch_request(u, requested_mode).mode_requests
        /\ last' = [op |-> "create_switch_request", actor |-> u]
                   @@ create_switch_request(u, requested_mode).resp
        /\ UNCHANGED <<users, projects, teams, stories, next_story_id, activities, sessions>>

RolesApprove ==
    \E u \in {1, 4}, request_id \in 1..MaxRequests :
        /\ users' = approve_request(u, request_id).users
        /\ mode_requests' = approve_request(u, request_id).mode_requests
        /\ last' = [op |-> "approve_request", actor |-> u] @@ approve_request(u, request_id).resp
        /\ UNCHANGED <<projects, teams, stories, next_story_id, activities, sessions>>

RolesReject ==
    \E u \in {1, 4}, request_id \in 1..MaxRequests :
        /\ users' = reject_request(u, request_id).users
        /\ mode_requests' = reject_request(u, request_id).mode_requests
        /\ last' = [op |-> "reject_request", actor |-> u] @@ reject_request(u, request_id).resp
        /\ UNCHANGED <<projects, teams, stories, next_story_id, activities, sessions>>

\* user.view_mode = value
assign_view_mode ==
    \E u \in {1, 4}, value \in {ADMIN, DEVELOPER} :
        /\ users' = [users EXCEPT ![u] = set_view_mode(@, value)]
        /\ last' = [op |-> "assign_view_mode", actor |-> u] @@ Response(200, "", "", 0, u)
        /\ UNCHANGED <<projects, teams, stories, next_story_id, activities, sessions,
                       mode_requests>>

NextRoles ==
    RolesUpdateRole \/ RolesRequest \/ RolesApprove \/ RolesReject \/ assign_view_mode

SpecRoles == InitTeams /\ [][NextRoles]_vars

\* the actor with the reserved email reads as MASTER_ADMIN in ADMIN view mode
C20_Reads ==
    \A u \in UserIds :
        users[u].email = MASTER_EMAIL => role(u) = MASTER_ADMIN /\ view_mode(u) = ADMIN

\* no step changes the stored view mode of the actor with the reserved email
C20_Step ==
    \A u \in UserIds :
        users[u].email = MASTER_EMAIL =>
            /\ users'[u].email = MASTER_EMAIL
            /\ users'[u]._view_mode = users[u]._view_mode

\* C20: in every reachable state, after any sequence of role updates, mode-switch
\* approvals and view_mode assignments, the actor with the reserved email reads
\* as role MASTER_ADMIN and view mode ADMIN, and assigning a view mode to that
\* actor leaves its stored view mode unchanged.
C20_ReservedIdentity == []C20_Reads /\ [][C20_Step]_vars

\* ADMIN was assigned to the view mode of the master admin, whose stored role is
\* ADMIN by now and whose stored view mode is still DEVELOPER; a request of user 4
\* has been approved
C20_Witness ==
    /\ last.op = "assign_view_mode" /\ last.id = 1
    /\ users[1]._role = ADMIN
    /\ users[1]._view_mode = DEVELOPER
    /\ users[4]._view_mode = ADMIN
    /\ \E i \in DOMAIN mode_requests : mode_requests[i].status = APPROVED

\* C21: after any sequence of role updates and mode-switch approvals the only
\* actor whose role reads MASTER_ADMIN is the actor with the reserved email.
C21_OnlyReservedIsMaster ==
    \A u \in UserIds : role(u) = MASTER_ADMIN => users[u].email = MASTER_EMAIL

\* the number of copies of record r in bag A
copies(A, r) == IF r \in BagToSet(A) THEN A[r] ELSE 0

\* C22 as stated: an activity record, once appended, is never modified or removed
\* by any later operation, the deletion of its issue included.
C22_ActivitiesOnlyGrow ==
    [][\A r \in BagToSet(activities) : copies(activities', r) >= copies(activities, r)]_vars

\* C22, amended: an activity record is never modified, and it is removed only
\* together with its issue: every record of an issue that is still stored after
\* an operation is still there, and an update of its issue only adds records.
C22_ActivitiesKeptWithIssue ==
    [][\A r \in BagToSet(activities) :
          r.story_id \in DOMAIN stories' => copies(activities', r) >= copies(activities, r)]_vars

\* an issue was deleted while records of another issue stay in the log
C22_Witness ==
    /\ last.op = "delete" /\ last.status = 200
    /\ activities # EmptyBag
    /\ \E r \in BagToSet(activities) : r.action = UPDATED

(***************************************************************************)
(* SpecAudit: the owner, the lead of team 1 and the assignee update the    *)
(* title, the status and the assignee of an Epic and of a Story under it.  *)
(***************************************************************************)
\* an Epic, a Story under issue 1 and a Story under an unknown issue, of team 1 for user 4
AuditData == {CreateData(1, EPIC, 0, TODO, 1, 4), CreateData(1, STORY, 1, TODO, 1, 4),
              CreateData(1, STORY, 3, TODO, 1, 4)}

AuditRequests ==
    {("title" :> "t"), ("title" :> "u") @@ ("status" :> DONE), ("status" :> DONE),
     ("assignee_id" :> 3) @@ ("title" :> "u"), ("assignee_id" :> 3)}

AuditCreate ==
    \E u \in {1}, data \in AuditData :
        /\ next_story_id < MaxIssues
        /\ BagCardinality(activities) < MaxActivities
        /\ CommitAs(u, "create", create_story(u, data))

AuditUpdate ==
    \E u \in {2, 3, 4}, id \in 1..MaxIssues, request \in AuditRequests :
        /\ next_story_id > 1
        /\ BagCardinality(activities) < MaxActivities
        /\ CommitAs(u, "update", update_story(u, id, request))

NextAudit == AuditCreate \/ AuditUpdate

SpecAudit == InitTeams /\ [][NextAudit]_vars

\* the requested fields whose value differs from the stored one
change_set(story, updates) == {f \in DOMAIN updates : updates[f] # story[f]}

\* bag B is bag A with exactly one more record, for story_id and action, counting k changes
one_more(A, B, story_id, action, k) ==
    \E r \in BagToSet(B) :
        /\ B = A (+) SetToBag({r})
        /\ r.story_id = story_id /\ r.action = action
        /\ r.change_count = k
        /\ r.change_lines = k + (IF action = CREATED THEN 1 ELSE 0)

\* C23: an update_story that changes no field adds no activity record; one that
\* changes k > 0 fields adds exactly one UPDATED record with change_count k; a
\* create adds exactly one CREATED record, whose text opens with an extra
\* "Issue Created" line.
C23_OneRecordPerChange ==
    /\ \A u \in {2, 3, 4} : \A id \in DOMAIN stories : \A request \in AuditRequests :
          LET r == update_story(u, id, request)
              cs == change_set(stories[id], strip_assignee(u, request))
          IN r.resp.status = 200 =>
                /\ r.stories = stories <=> cs = {}
                /\ IF cs = {} THEN r.activities = activities
                   ELSE one_more(activities, r.activities, id, UPDATED, Cardinality(cs))
    /\ \A u \in {1} : \A data \in AuditData :
          LET r == create_story(u, data)
          IN r.resp.status = 200 =>
                one_more(activities, r.activities, next_story_id, CREATED, 1)

\* the owner has changed the assignee and the title of an issue in one update, which
\* added one record counting two changes
C23_Witness ==
    /\ last.op = "update" /\ last.status = 200 /\ last.actor = 2
    /\ stories[last.id].assignee_id = 3
    /\ \E r \in BagToSet(activities) :
          r.story_id = last.id /\ r.action = UPDATED /\ r.change_count = 2 /\ r.user_id = 2

(***************************************************************************)
(* Rejected requests: the master and the project owner create, the owner,  *)
(* a lead and the assignee update, and project 1 is archived and restored. *)
(***************************************************************************)
RejectData == AuditData \cup {CreateData(4, EPIC, 0, TODO, 0, 0)}

RejectRequests ==
    {("title" :> "u") @@ ("status" :> DONE), ("parent_issue_id" :> 2) @@ ("title" :> "u"),
     ("assignee_id" :> 3)}

RejectCreate ==
    \E u \in {1, 2}, data \in RejectData :
        /\ next_story_id < MaxIssues
        /\ BagCardinality(activities) < MaxActivities
        /\ CommitAs(u, "create", create_story(u, data))

RejectUpdate ==
    \E u \in {2, 3, 4}, id \in 1..MaxIssues, request \in RejectRequests :
        /\ next_story_id > 1
        /\ BagCardinality(activities) < MaxActivities
        /\ CommitAs(u, "update", update_story(u, id, request))

NextReject == RejectCreate \/ RejectUpdate \/ GateArchive

SpecReject == InitTeams /\ [][NextReject]_vars

\* what a handler's result leaves as it was
nothing_changed(r) ==
    /\ r.stories = stories
    /\ r.teams = teams
    /\ r.activities = activities
    /\ r.next_story_id = next_story_id

\* C24: whenever create_story or update_story is rejected (permission denial,
\* inactive project, missing entity, hierarchy failure, status-guard failure),
\* no issue field, team membership or activity record differs from the state
\* before the request.
C24_RejectedChangesNothing ==
    /\ \A u \in UserIds : \A data \in RejectData :
          LET r == create_story(u, data)
          IN r.resp.status # 200 => nothing_changed(r)
    /\ \A u \in UserIds : \A id \in 1..MaxIssues : \A request \in RejectRequests :
          LET r == update_story(u, id, request)
          IN r.resp.status # 200 => nothing_changed(r)

\* an update that asked for a new title and the status Done was refused by the
\* status guard, and the issue kept its title
C24_Witness ==
    /\ last.op = "update" /\ last.status = 400 /\ last.reason = INVALID_TRANSITION
    /\ last.id \in DOMAIN stories
    /\ stories[last.id].title = "t"
    /\ update_story(last.actor, last.id, ("title" :> "u") @@ ("status" :> DONE)).resp.status = 400

(***************************************************************************)
(* utils/notification_service.py, the notification sink.  Fire-and-forget: *)
(* a failure of the sink is reported to nobody.  [raised, delivered]       *)
(***************************************************************************)
notify_issue_assigned(sink_fails) == [raised |-> FALSE, delivered |-> ~sink_fails]

create_notification(sink_fails) == [raised |-> FALSE, delivered |-> ~sink_fails]

SINK_ERROR == "NotificationError"

\* what the sink did with the request: "none" when the handler did not call it
sink_outcome(called, sink_fails) ==
    IF ~called THEN "none" ELSE IF sink_fails THEN "failed" ELSE "delivered"

\* create_story that rolls back whenever the notification was not delivered
create_story_notified_or_rolled_back(u, data, sink_fails) ==
    LET r == create_story(u, data)
        called == r.resp.status = 200 /\ r.stories[r.resp.id].assignee_id # 0
    IN IF called /\ ~notify_issue_assigned(sink_fails).delivered
           THEN Raised(500, SINK_ERROR, "", 0, 0) @@ [sink |-> "failed"]
       ELSE r @@ [sink |-> sink_outcome(called, sink_fails)]

\* create_story with its notification: notify_issue_assigned is called between
\* create_activity and db.commit(), and an exception of it leaves the function
create_story_notified(u, data, sink_fails) ==
    LET r == create_story(u, data)
        called == r.resp.status = 200 /\ r.stories[r.resp.id].assignee_id # 0
    IN IF called /\ notify_issue_assigned(sink_fails).raised
           THEN Raised(500, SINK_ERROR, "", 0, 0) @@ [sink |-> "failed"]
       ELSE r @@ [sink |-> sink_outcome(called, sink_fails)]

\* update_story with its notifications: notify_issue_assigned for a new
\* assignee, create_notification for a new status of an assigned issue
update_story_notified(u, story_id, request, sink_fails) ==
    LET r == update_story(u, story_id, request)
        old == stories[story_id]
        new == r.stories[story_id]
        assigned == new.assignee_id # old.assignee_id /\ new.assignee_id # 0
        restatus == new.status # old.status /\ new.assignee_id # 0
        called == r.resp.status = 200 /\ (assigned \/ restatus)
    IN IF called /\ ( (assigned /\ notify_issue_assigned(sink_fails).raised)
                      \/ (restatus /\ create_notification(sink_fails).raised) )
           THEN Raised(500, SINK_ERROR, "", 0, story_id) @@ [sink |-> "failed"]
       ELSE r @@ [sink |-> sink_outcome(called, sink_fails)]

\* the handler's result and the sink's outcome become the database and the response
CommitNotified(u, op, r) ==
    /\ stories' = r.stories
    /\ teams' = r.teams
    /\ activities' = r.activities
    /\ next_story_id' = r.next_story_id
    /\ last' = [op |-> op, actor |-> u, sink |-> r.sink] @@ r.resp
    /\ UNCHANGED <<mode_requests, users, projects, sessions>>

NotifyCreate ==
    \E u \in {1}, data \in AuditData, sink_fails \in BOOLEAN :
        /\ next_story_id < MaxIssues
        /\ BagCardinality(activities) < MaxActivities
        /\ CommitNotified(u, "create", create_story_notified(u, data, sink_fails))

NotifyUpdate ==
    \E u \in {2, 3, 4}, id \in 1..MaxIssues, request \in AuditRequests, sink_fails \in BOOLEAN :
        /\ next_story_id > 1
        /\ BagCardinality(activities) < MaxActivities
        /\ CommitNotified(u, "update", update_story_notified(u, id, request, sink_fails))

NextNotify == NotifyCreate \/ NotifyUpdate

SpecNotify == InitTeams /\ [][NextNotify]_vars

CycleIssues == 53     \* issues created: a cycle of 52 and one issue outside it

CycleActivities == 2 * CycleIssues + 3

CycleCreate ==
    /\ Room(CycleIssues, CycleActivities)
    /\ Commit("create", create_story(1, CreateData(1, IF next_story_id = 1 THEN EPIC ELSE STORY,
                                                   next_story_id - 1, TODO, 0, 0)))

CycleRetypeLatest ==
    /\ next_story_id > 2
    /\ next_story_id <= CycleIssues
    /\ stories[next_story_id - 1].issue_type = STORY
    /\ BagCardinality(activities) < CycleActivities
    /\ Commit("update", update_story(1, next_story_id - 1, "issue_type" :> EPIC))

CycleRetypeFirst ==
    /\ 1 \in DOMAIN stories
    /\ stories[1].issue_type = EPIC
    /\ BagCardinality(activities) < CycleActivities
    /\ Commit("update", update_story(1, 1, "issue_type" :> STORY))

\* PUT parent_issue_id on issue 1: the last issue but one
CycleReparentFirst ==
    /\ next_story_id > DeepIssues
    /\ BagCardinality(activities) < CycleActivities
    /\ Commit("update", update_story(1, 1, "parent_issue_id" :> (next_story_id - 2)))

\* PUT parent_issue_id on the latest issue: the issue two above it
CycleReparentLatest ==
    /\ next_story_id > CycleIssues
    /\ BagCardinality(activities) < CycleActivities
    /\ Commit("update", update_story(1, next_story_id - 1, "parent_issue_id" :> (next_story_id - 3)))

NextCycle ==
    CycleCreate \/ CycleRetypeLatest \/ CycleRetypeFirst \/ CycleReparentFirst \/ CycleReparentLatest

SpecCycle == Init /\ [][NextCycle]_vars

\* issue i lies on a cycle of parent links
on_cycle(S, i) == reaches(S, i, i, Cardinality(DOMAIN S))

\* C26: the ancestor walk of validate_hierarchy ends after at most 50 hops,
\* also when the stored parent links contain a cycle that does not pass
\* through the issue being updated, and then it reports no CircularDependency.
C26_WalkBounded ==
    \A A \in DOMAIN stories : \A p \in DOMAIN stories \ {A} :
        /\ ancestor_walk_hops(stories, p, 0, A) <= MaxDepth
        /\ on_cycle(stories, p) /\ ~on_cycle(stories, A) =>
              /\ ~ancestor_walk(stories, p, 0, A)
              /\ ancestor_walk_hops(stories, p, 0, A) = MaxDepth
              /\ validate_hierarchy(stories, p, stories[A].issue_type, A).error
                    # CIRCULAR_DEPENDENCY

\* the latest issue, outside the stored cycle, was moved under an issue of the cycle
C26_Witness ==
    /\ last.op = "update" /\ last.status = 200 /\ last.id = next_story_id - 1
    /\ ~on_cycle(stories, last.id)
    /\ stories[last.id].parent_issue_id = last.id - 2
    /\ on_cycle(stories, last.id - 2)

\* C27: after any sequence of successful create_story and update_story
\* operations every issue that has a parent belongs to the same project as
\* that parent.
C27_ParentInSameProject ==
    \A i \in DOMAIN stories :
        stories[i].parent_issue_id \in DOMAIN stories =>
            stories[stories[i].parent_issue_id].project_id = stories[i].project_id

\* C28: for every actor and every issue, can_update_issue(actor, issue)
\* implies can_view_issue(actor, issue).
C28_UpdateImpliesView ==
    \A u \in UserIds : \A i \in DOMAIN stories :
        can_update_issue(u, stories[i]) => can_view_issue(u, stories[i], stories)

\* the assignee of an issue without a team, in Developer view, has updated it
\* and may view it, while a roster member may view it and not update it
C28_Witness ==
    /\ last.op = "update" /\ last.status = 200 /\ last.actor = 4
    /\ view_mode(4) = DEVELOPER
    /\ stories[last.id].team_id = 0
    /\ can_update_issue(4, stories[last.id]) /\ can_view_issue(4, stories[last.id], stories)
    /\ \E i \in DOMAIN stories :
          can_view_issue(5, stories[i], stories) /\ ~can_update_issue(5, stories[i])

\* approve and reject of a request that is no longer pending: bad request for
\* the master admin, an error for everybody, and nothing changed
C29_Refused ==
    \A u \in {1, 4} : \A id \in DOMAIN mode_requests :
        mode_requests[id].status # PENDING =>
            /\ \A r \in {approve_request(u, id), reject_request(u, id)} :
                  /\ r.resp.status # 200
                  /\ is_master_admin(u) => r.resp.status = 400 /\ r.resp.reason = BAD_REQUEST
                  /\ r.mode_requests = mode_requests
                  /\ r.users = users

\* a status changes only from PENDING, to APPROVED or REJECTED, and an
\* approval leaves the target user with the requested mode as role and view mode
C29_Step ==
    /\ \A id \in DOMAIN mode_requests :
          /\ id \in DOMAIN mode_requests'
          /\ mode_requests'[id].status # mode_requests[id].status =>
                /\ mode_requests[id].status = PENDING
                /\ mode_requests'[id].status \in {APPROVED, REJECTED}
    /\ \A id \in DOMAIN mode_requests :
          last'.op = "approve_request" /\ last'.status = 200 /\ last'.id = id =>
             /\ mode_requests'[id].status = APPROVED
             /\ role(mode_requests[id].user_id)' = mode_requests[id].requested_mode
             /\ view_mode(mode_requests[id].user_id)' = mode_requests[id].requested_mode

\* C29: a mode-switch request changes status at most once and only from
\* PENDING to APPROVED or REJECTED; approve or reject on a request that is
\* not PENDING fails with a bad-request error and leaves the request's
\* status and the target user's role and view mode unchanged; an approval
\* sets the target user's role and view mode both to the requested mode.
C29_RequestLifecycle == []C29_Refused /\ [][C29_Step]_vars

\* the master admin approved one request, which gave user 4 the Admin role
\* and view, rejected the next, and was then refused the approval of the
\* rejected one
C29_Witness ==
    /\ last.op = "approve_request" /\ last.actor = 1 /\ last.status = 400
    /\ Len(mode_requests) = 2
    /\ mode_requests[1].status = APPROVED /\ mode_requests[1].requested_mode = ADMIN
    /\ mode_requests[2].status = REJECTED
    /\ mode_requests[last.id].status = REJECTED
    /\ role(4) = ADMIN /\ view_mode(4) = ADMIN

\* the update requests of SpecAudit and one that names the assignee as well
DeveloperRequests ==
    AuditRequests \cup {("assignee" :> "lead") @@ ("assignee_id" :> 3) @@ ("title" :> "v")}

\* C30: update_story performed by an actor whose global role is DEVELOPER
\* never changes the issue's assignee or assignee_id, whatever fields the
\* request contains; all other requested fields are still applied.
C30_DeveloperKeepsAssignee ==
    \A u \in UserIds : \A id \in DOMAIN stories : \A request \in DeveloperRequests :
        LET r == update_story(u, id, request)
        IN role(u) = DEVELOPER /\ r.resp.status = 200 =>
              /\ r.stories[id].assignee_id = stories[id].assignee_id
              /\ r.stories[id].assignee = stories[id].assignee
              /\ \A f \in DOMAIN request \ {"assignee", "assignee_id"} :
                    r.stories[id][f] = request[f]

\* user 4, a DEVELOPER, asked for a new assignee and a new title: the title
\* was stored with one change recorded, and user 4 is still the assignee
C30_Witness ==
    /\ last.op = "update" /\ last.status = 200 /\ last.actor = 4 /\ role(4) = DEVELOPER
    /\ stories[last.id].title = "u" /\ stories[last.id].status = TODO
    /\ stories[last.id].assignee_id = 4
    /\ \A r \in BagToSet(activities) :
          r.story_id = last.id /\ r.action = UPDATED => r.user_id = 4 /\ r.change_count = 1
    /\ \E r \in BagToSet(activities) : r.story_id = last.id /\ r.action = UPDATED

====
